---- MODULE Spec2Model ----
(***************************************************************************)
(* A model of the Ralph Lauren ESG analysis pipeline:                      *)
(*   stage 1  02_pdf_text_extractor.py   (PDF -> page-delimited text)      *)
(*   stage 2  03_esg_data_extractor.py   (text -> four record collections) *)
(*   stage 3  04_quantitative_analysis_visualization.py (aggregation)      *)
(* Texts are strings; a character is a string of length one.  Offsets in   *)
(* match records are 0-based as in Python, positions given to the regular  *)
(* expression matcher are 1-based.                                         *)
(***************************************************************************)
EXTENDS Integers, Sequences, FiniteSets, TLC

(***************************************************************************)
(* Text primitives (Python str operations used by the scripts).            *)
(***************************************************************************)
Ch(s, i) == SubSeq(s, i, i)

Min2(a, b) == IF a <= b THEN a ELSE b

Max2(a, b) == IF a >= b THEN a ELSE b

Idx(n) == [i \in 1..n |-> i]

\* s[a:b] with 0 <= a, 0 <= b (Python slice, 0-based, end exclusive)
Slice(s, a, b) == SubSeq(s, a + 1, Min2(b, Len(s)))

UpperLetters == "ABCDEFGHIJKLMNOPQRSTUVWXYZ"

LowerLetters == "abcdefghijklmnopqrstuvwxyz"

DigitChars == "0123456789"

LowerMap == [c \in {Ch(UpperLetters, k) : k \in 1..26} |->
               Ch(LowerLetters, CHOOSE k \in 1..26 : Ch(UpperLetters, k) = c)]

LowerCh(c) == IF c \in DOMAIN LowerMap THEN LowerMap[c] ELSE c

\* str.lower() on ASCII text
RECURSIVE Lower(_)
Lower(s) ==
  IF Len(s) = 0 THEN ""
  ELSE IF Len(s) = 1 THEN LowerCh(s)
  ELSE LET h == Len(s) \div 2
       IN  Lower(SubSeq(s, 1, h)) \o Lower(SubSeq(s, h + 1, Len(s)))

\* "x" * n
RECURSIVE Repeat(_, _)
Repeat(s, n) ==
  IF n <= 0 THEN ""
  ELSE IF n = 1 THEN s
  ELSE Repeat(s, n \div 2) \o Repeat(s, n - (n \div 2))

DigitSet == {Ch(DigitChars, k) : k \in 1..10}

LetterSet == {Ch(UpperLetters, k) : k \in 1..26} \cup {Ch(LowerLetters, k) : k \in 1..26}

IsDigit(c) == c \in DigitSet

IsSpace(c) == c \in {" ", "\n", "\t"}

\* \w of the re module (ASCII)
IsWord(c) == c \in DigitSet \/ c \in LetterSet \/ c = "_"

DigitVal(c) == (CHOOSE k \in 1..10 : Ch(DigitChars, k) = c) - 1

\* int(s) for a string of decimal digits
RECURSIVE ParseInt(_)
ParseInt(s) ==
  IF Len(s) = 0 THEN 0
  ELSE 10 * ParseInt(SubSeq(s, 1, Len(s) - 1)) + DigitVal(Ch(s, Len(s)))

\* the part of s between the first and the last of the positions keep
Between(s, keep) == IF keep = <<>> THEN "" ELSE SubSeq(s, keep[1], keep[Len(keep)])

\* s.strip()
Strip(s) == Between(s, SelectSeq(Idx(Len(s)), LAMBDA i : ~IsSpace(Ch(s, i))))

RECURSIVE JoinWords(_, _, _, _, _)
JoinWords(s, starts, ends, lo, hi) ==
  IF lo > hi THEN ""
  ELSE IF lo = hi THEN SubSeq(s, starts[lo], ends[lo])
  ELSE LET mid == (lo + hi) \div 2
       IN  JoinWords(s, starts, ends, lo, mid) \o " " \o JoinWords(s, starts, ends, mid + 1, hi)

\* s.split(): the first and the last position of each maximal run of non-blank characters
WordStarts(s) ==
  SelectSeq(Idx(Len(s)), LAMBDA i : ~IsSpace(Ch(s, i)) /\ (i = 1 \/ IsSpace(Ch(s, i - 1))))

WordEnds(s) ==
  SelectSeq(Idx(Len(s)), LAMBDA i : ~IsSpace(Ch(s, i)) /\ (i = Len(s) \/ IsSpace(Ch(s, i + 1))))

\* ' '.join(s.split()): runs of whitespace become one blank, the ends are trimmed
Collapse(s) == JoinWords(s, WordStarts(s), WordEnds(s), 1, Len(WordEnds(s)))

RECURSIVE JoinWith(_, _, _, _)
JoinWith(sep, items, lo, hi) ==
  IF lo > hi THEN ""
  ELSE IF lo = hi THEN items[lo]
  ELSE LET mid == (lo + hi) \div 2
       IN  JoinWith(sep, items, lo, mid) \o sep \o JoinWith(sep, items, mid + 1, hi)

\* sep.join(items)
Join(sep, items) == JoinWith(sep, items, 1, Len(items))

\* needle in hay
Contains(hay, needle) ==
  \E i \in 1..(Len(hay) - Len(needle) + 1) : SubSeq(hay, i, i + Len(needle) - 1) = needle

\* concatenation of the sequences f[lo], ..., f[hi]
RECURSIVE Flatten(_, _, _)
Flatten(f, lo, hi) ==
  IF lo > hi THEN <<>>
  ELSE IF lo = hi THEN f[lo]
  ELSE LET mid == (lo + hi) \div 2
       IN  Flatten(f, lo, mid) \o Flatten(f, mid + 1, hi)

\* the list a loop builds when its k-th round appends the items f[k]
Concat(f) == Flatten(f, 1, Len(f))

\* [Op(x) for x in seq]
Map(Op(_), seq) == [n \in 1..Len(seq) |-> Op(seq[n])]

\* the first element of a list of positions, 0 for the empty list
FirstOrZero(es) == IF es = <<>> THEN 0 ELSE es[1]

(***************************************************************************)
(* Regular expressions (the subset of Python's re the scripts use).        *)
(* A pattern is a sequence of atoms.  Ends(p, k, s, i) lists, in the       *)
(* order a backtracking matcher tries them, the positions at which atoms   *)
(* k.. of p can end when started at position i of s; the match re takes is *)
(* the first one.                                                          *)
(***************************************************************************)
Lit(str) == [t |-> "lit", s |-> str]

Star(cls) == [t |-> "star", c |-> cls]

Plus(cls) == [t |-> "plus", c |-> cls]

LazyPlus(cls) == [t |-> "lazyplus", c |-> cls]

Times(cls, n) == [t |-> "times", c |-> cls, n |-> n]

Opt(p) == [t |-> "opt", p |-> p]

Alt(ps) == [t |-> "alt", ps |-> ps]

WordBoundary == [t |-> "wb"]

\* character classes: \d, . (no newline), \s, [\d,]
InClass(c, cls) ==
  CASE cls = "d"   -> IsDigit(c)
    [] cls = "dot" -> c # "\n"
    [] cls = "s"   -> IsSpace(c)
    [] cls = "dc"  -> IsDigit(c) \/ c = ","

\* number of consecutive characters of the class from position i on
RunLen(s, i, cls) ==
  Cardinality({j \in i..Len(s) : \A h \in i..j : InClass(Ch(s, h), cls)})

AtWordBoundary(s, i) ==
  LET before == i > 1 /\ IsWord(Ch(s, i - 1))
      after  == i <= Len(s) /\ IsWord(Ch(s, i))
  IN  before # after

RECURSIVE Ends(_, _, _, _), EndsDown(_, _, _, _, _), EndsUp(_, _, _, _, _), EndsEach(_, _, _, _), EndsAlt(_, _, _, _, _, _)
Ends(p, k, s, i) ==
  IF k > Len(p) THEN <<i>>
  ELSE LET a == p[k] IN
    CASE a.t = "lit" ->
           IF i + Len(a.s) - 1 <= Len(s) /\ SubSeq(s, i, i + Len(a.s) - 1) = a.s
           THEN Ends(p, k + 1, s, i + Len(a.s)) ELSE <<>>
      [] a.t = "times" ->
           IF i + a.n - 1 <= Len(s) /\ \A j \in i..(i + a.n - 1) : InClass(Ch(s, j), a.c)
           THEN Ends(p, k + 1, s, i + a.n) ELSE <<>>
      [] a.t = "star" -> EndsDown(p, k + 1, s, i, i + RunLen(s, i, a.c))
      [] a.t = "plus" -> EndsDown(p, k + 1, s, i + 1, i + RunLen(s, i, a.c))
      [] a.t = "lazyplus" -> EndsUp(p, k + 1, s, i + 1, i + RunLen(s, i, a.c))
      [] a.t = "opt" ->
           EndsEach(p, k + 1, s, Ends(a.p, 1, s, i)) \o Ends(p, k + 1, s, i)
      [] a.t = "alt" -> EndsAlt(p, k, s, i, 1, Len(a.ps))
      [] a.t = "wb" -> IF AtWordBoundary(s, i) THEN Ends(p, k + 1, s, i) ELSE <<>>

\* greedy: the atoms k.. tried from position hi down to position lo
EndsDown(p, k, s, lo, hi) ==
  IF lo > hi THEN <<>>
  ELSE IF lo = hi THEN Ends(p, k, s, lo)
  ELSE LET mid == (lo + hi) \div 2
       IN  EndsDown(p, k, s, mid + 1, hi) \o EndsDown(p, k, s, lo, mid)

\* lazy: from position lo up to position hi
EndsUp(p, k, s, lo, hi) ==
  IF lo > hi THEN <<>>
  ELSE IF lo = hi THEN Ends(p, k, s, lo)
  ELSE LET mid == (lo + hi) \div 2
       IN  EndsUp(p, k, s, lo, mid) \o EndsUp(p, k, s, mid + 1, hi)

\* the atoms k.. continued from each position of es, in order
EndsEach(p, k, s, es) ==
  IF Len(es) = 0 THEN <<>>
  ELSE IF Len(es) = 1 THEN Ends(p, k, s, es[1])
  ELSE EndsEach(p, k, s, SubSeq(es, 1, Len(es) \div 2))
       \o EndsEach(p, k, s, SubSeq(es, Len(es) \div 2 + 1, Len(es)))

\* alternatives lo..hi of the alternation p[k], each continued by atoms k+1..
EndsAlt(p, k, s, i, lo, hi) ==
  IF lo > hi THEN <<>>
  ELSE IF lo = hi
       THEN EndsEach(p, k + 1, s, Ends(p[k].ps[lo], 1, s, i))
  ELSE LET mid == (lo + hi) \div 2
       IN  EndsAlt(p, k, s, i, lo, mid) \o EndsAlt(p, k, s, i, mid + 1, hi)

\* the position after the match of p at position i, 0 when p does not match there
MatchAt(p, s, i) == FirstOrZero(Ends(p, 1, s, i))

\* leftmost non-overlapping scan over the candidate matches [start, end] (1-based here)
RECURSIVE ScanMatches(_, _, _)
ScanMatches(cand, k, pos) ==
  IF k > Len(cand) THEN <<>>
  ELSE IF cand[k].start < pos THEN ScanMatches(cand, k + 1, pos)
  ELSE <<[start |-> cand[k].start - 1, end |-> cand[k].end - 1]>> \o ScanMatches(cand, k + 1, cand[k].end)

\* the match of p at every position of s, as [start, end] with end 0 where p does not match
MatchesAt(p, s) == [i \in 1..Len(s) |-> [start |-> i, end |-> MatchAt(p, s, i)]]

\* re.finditer(p, s): the matches as [start, end] (0-based, end exclusive)
Finditer(p, s) == ScanMatches(SelectSeq(MatchesAt(p, s), LAMBDA m : m.end # 0), 1, 1)

\* re.finditer(p, s, re.IGNORECASE); the literals of every pattern so used are lower case
FinditerIgnoreCase(p, s) == Finditer(p, Lower(s))

\* match.group()
Group(s, m) == Slice(s, m.start, m.end)

\* the end of the first group of the match of pre(grp)post at position i (0: no match)
GroupEndAt(pre, grp, post, s, i) ==
  FirstOrZero(SelectSeq(EndsEach(grp, 1, s, Ends(pre, 1, s, i)), LAMBDA e : Ends(post, 1, s, e) # <<>>))

\* re.findall of a pattern pre(grp)post with one group and a zero-width pre: the group texts
Findall(pre, grp, post, s) ==
  Map(LAMBDA m : SubSeq(s, m.start + 1, GroupEndAt(pre, grp, post, s, m.start + 1) - 1),
      Finditer(pre \o grp \o post, s))

(***************************************************************************)
(* Stage 1: the pure parts of PDFTextExtractor.  A PDF is a record         *)
(* [dir, name, stem, pages]: the directory it lies in, its file name, the  *)
(* name without ".pdf", and the text of each page as PyMuPDF returns it.   *)
(***************************************************************************)
MarkerWidth == 80

\* A year as stage 1 holds it is a Python int or the str 'Unknown': [int |-> n] or
\* [str |-> s].  YearText is its str(), as the f-strings format it.
IntYear(n) == [int |-> n]

StrYear(s) == [str |-> s]

YearText(year) == IF "int" \in DOMAIN year THEN ToString(year.int) ELSE year.str

\* a variant of PageMarker with a defect: the marker carries page_num, counted from 0
PageMarkerFromZero(page_number, total_pages) ==
  "\n" \o Repeat("=", MarkerWidth) \o "\n[PAGE " \o ToString(page_number - 1) \o " OF "
       \o ToString(total_pages) \o "]\n" \o Repeat("=", MarkerWidth) \o "\n"

\* the page marker extract_with_pymupdf builds for page page_num + 1
PageMarker(page_number, total_pages) ==
  "\n" \o Repeat("=", MarkerWidth) \o "\n[PAGE " \o ToString(page_number) \o " OF "
       \o ToString(total_pages) \o "]\n" \o Repeat("=", MarkerWidth) \o "\n"

\* extract_with_pymupdf on a readable document
ExtractWithPymupdf(pdf) ==
  [k \in 1..Len(pdf.pages) |->
     [page_number |-> k, text |-> pdf.pages[k], marker |-> PageMarker(k, Len(pdf.pages))]]

RECURSIVE ReplaceCh(_, _, _)
\* s.replace(c, r) for a single character c
ReplaceCh(s, c, r) ==
  IF Len(s) = 0 THEN ""
  ELSE IF Len(s) = 1 THEN (IF s = c THEN r ELSE s)
  ELSE LET h == Len(s) \div 2
       IN  ReplaceCh(SubSeq(s, 1, h), c, r) \o ReplaceCh(SubSeq(s, h + 1, Len(s)), c, r)

SafeName(stem) == ReplaceCh(ReplaceCh(stem, " ", "_"), "&", "and")

OutputFileName(pdf, year) == YearText(year) \o "_" \o SafeName(pdf.stem) \o "_extracted.txt"

ExtractionStamp == "2025-01-01 00:00:00"

\* the text save_extracted_text writes to the output file
SaveExtractedText(text_by_page, pdf, year, doc_type) ==
  Repeat("#", MarkerWidth) \o "\n"
  \o "RALPH LAUREN ESG ANALYSIS - EXTRACTED TEXT\n"
  \o Repeat("#", MarkerWidth) \o "\n"
  \o "Source File: " \o pdf.name \o "\n"
  \o "Year: " \o YearText(year) \o "\n"
  \o "Document Type: " \o doc_type \o "\n"
  \o "Total Pages: " \o ToString(Len(text_by_page)) \o "\n"
  \o "Extraction Date: " \o ExtractionStamp \o "\n"
  \o Repeat("#", MarkerWidth) \o "\n\n"
  \o Flatten([k \in 1..Len(text_by_page) |-> text_by_page[k].marker \o text_by_page[k].text \o "\n"],
             1, Len(text_by_page))

\* a variant of CategoryOf with a defect: the test for a 10-K comes first
CategoryOfTenKFirst(f) ==
  IF Contains(f, "10k") \/ Contains(f, "10-k") THEN "10-K Annual Report"
  ELSE IF Contains(f, "citizenship") \/ Contains(f, "gcs") \/ Contains(f, "sustainability")
    THEN "Global Citizenship & Sustainability Report"
  ELSE IF Contains(f, "cdp") /\ Contains(f, "climate") THEN "CDP Climate Change Disclosure"
  ELSE IF Contains(f, "cdp") /\ Contains(f, "water") THEN "CDP Water Security Disclosure"
  ELSE IF Contains(f, "cdp") /\ Contains(f, "forest") THEN "CDP Forest Disclosure"
  ELSE IF Contains(f, "carbon footprint") \/ Contains(f, "verification") \/ Contains(f, "assurance")
    THEN "Carbon Footprint Verification/Assurance"
  ELSE "Other Report"

\* the chain of tests of categorize_document on filename_lower
CategoryOf(f) ==
  IF Contains(f, "citizenship") \/ Contains(f, "gcs") \/ Contains(f, "sustainability")
    THEN "Global Citizenship & Sustainability Report"
  ELSE IF Contains(f, "10k") \/ Contains(f, "10-k") THEN "10-K Annual Report"
  ELSE IF Contains(f, "cdp") /\ Contains(f, "climate") THEN "CDP Climate Change Disclosure"
  ELSE IF Contains(f, "cdp") /\ Contains(f, "water") THEN "CDP Water Security Disclosure"
  ELSE IF Contains(f, "cdp") /\ Contains(f, "forest") THEN "CDP Forest Disclosure"
  ELSE IF Contains(f, "carbon footprint") \/ Contains(f, "verification") \/ Contains(f, "assurance")
    THEN "Carbon Footprint Verification/Assurance"
  ELSE "Other Report"

CategorizeDocument(filename) == CategoryOf(Lower(filename))

PathYears == <<2020, 2021, 2022, 2023, 2024, 2025>>

\* the years of PathYears whose digits occur in str, in the order of the loop
YearsIn(str) == SelectSeq(PathYears, LAMBDA y : Contains(str, ToString(y)))

\* the first year of the first loop, else of the second loop, else 'Unknown'
FirstYear(inPath, inName) ==
  IF inPath # <<>> THEN IntYear(inPath[1])
  ELSE IF inName # <<>> THEN IntYear(inName[1])
  ELSE StrYear("Unknown")

ExtractYearFromPath(pdf) == FirstYear(YearsIn(pdf.dir \o "/" \o pdf.name), YearsIn(pdf.name))

(***************************************************************************)
(* Stage 2: ESGDataExtractor.define_patterns                               *)
(***************************************************************************)
target_keywords ==
  << <<Lit("target")>>,
     <<Lit("goal")>>,
     <<Lit("objective")>>,
     <<Lit("aim to")>>,
     <<Lit("reduce"), Star("dot"), Lit("by "), Plus("d"), Lit("%")>>,
     <<Lit("achieve"), Star("dot"), Lit("by "), Times("d", 4)>>,
     <<Lit("reach"), Star("dot"), Lit("by "), Times("d", 4)>>,
     <<Plus("d"), Lit("% reduction")>>,
     <<Lit("net zero")>>,
     <<Lit("carbon neutral")>>,
     <<Lit("science-based target")>> >>

commitment_strong ==
  <<"committed to", "will achieve", "will reduce", "will reach",
    "pledge to", "determined to", "dedicated to", "have committed">>

commitment_moderate ==
  <<"plan to", "intend to", "aim to", "working to", "seeking to",
    "strive to", "expect to", "focused on">>

commitment_weak ==
  <<"aspire to", "hope to", "may", "could", "exploring",
    "considering", "evaluating", "subject to", "dependent on">>

initiative_keywords ==
  << <<Lit("program")>>, <<Lit("initiative")>>, <<Lit("partnership")>>, <<Lit("collaboration")>>,
     <<Lit("launched")>>, <<Lit("announced")>>, <<Lit("introduced")>>, <<Lit("implemented")>>,
     <<Lit("invested $"), Plus("dc")>>, <<Lit("investment of")>>, <<Lit("million")>>, <<Lit("billion")>> >>

impact_keywords ==
  << [area |-> "Climate/Carbon",
      keywords |-> <<"emission", "carbon", "greenhouse gas", "GHG", "CO2", "climate",
                     "scope 1", "scope 2", "scope 3", "carbon footprint">>],
     [area |-> "Water",
      keywords |-> <<"water", "H2O", "water use", "water consumption", "water stewardship",
                     "water stress", "water efficiency">>],
     [area |-> "Waste/Circular Economy",
      keywords |-> <<"waste", "recycl", "circular", "zero waste", "landfill",
                     "reuse", "repurpose", "end-of-life">>],
     [area |-> "Energy",
      keywords |-> <<"energy", "renewable energy", "solar", "wind", "renewable",
                     "energy efficiency", "electricity">>],
     [area |-> "Materials",
      keywords |-> <<"sustainable material", "organic cotton", "recycled polyester",
                     "preferred fiber", "sustainable sourcing", "material innovation">>],
     [area |-> "Supply Chain",
      keywords |-> <<"supplier", "supply chain", "factory", "manufacturing",
                     "vendor", "sourcing">>],
     [area |-> "Human Rights/Labor",
      keywords |-> <<"human rights", "labor", "worker", "fair wage",
                     "working conditions", "child labor", "forced labor">>],
     [area |-> "Diversity/Equity",
      keywords |-> <<"diversity", "equity", "inclusion", "DEI", "gender",
                     "racial", "equal opportunity", "representation">>],
     [area |-> "Biodiversity",
      keywords |-> <<"biodiversity", "ecosystem", "nature", "forest", "deforestation",
                     "land use", "habitat">>],
     [area |-> "Governance",
      keywords |-> <<"governance", "board", "oversight", "policy", "compliance",
                     "ethics", "transparency", "disclosure">>] >>

\* numeric_patterns['percentage'] = (\d+(?:\.\d+)?)\s*% : the group and what follows it
percentage_group == <<Plus("d"), Opt(<<Lit("."), Plus("d")>>)>>

percentage_rest == <<Star("s"), Lit("%")>>

\* numeric_patterns['year'] = \b(20\d{2})\b : the group between two word boundaries
year_group == <<Lit("20"), Times("d", 2)>>

\* numeric_patterns['currency'] = \$\s*([\d,]+(?:\.\d+)?)\s*(million|billion|M|B)?
currency_pattern ==
  <<Lit("$"), Star("s"), Plus("dc"), Opt(<<Lit("."), Plus("d")>>), Star("s"),
    Opt(<<Alt(<< <<Lit("million")>>, <<Lit("billion")>>, <<Lit("M")>>, <<Lit("B")>> >>)>>)>>

(***************************************************************************)
(* Stage 2: parsing of an extracted text file                              *)
(***************************************************************************)
\* re.search(label + '(.+?)\n', content): group(1).strip(), or <<>> when nothing matches
SearchHeaderField(content, label) ==
  Map(LAMBDA m : Strip(Slice(content, m.start + Len(label), m.end - 1)),
      SubSeq(Finditer(<<Lit(label), LazyPlus("dot"), Lit("\n")>>, content), 1, 1))

\* metadata.get(key, default)
Get(metadata, key, default) == IF key \in DOMAIN metadata THEN metadata[key] ELSE default

\* the dictionary of the fields that were found
FoundFields(fld) == [k \in {key \in DOMAIN fld : fld[key] # <<>>} |-> fld[k][1]]

extract_metadata_from_header(content) ==
  FoundFields([source_file   |-> SearchHeaderField(content, "Source File: "),
               year          |-> SearchHeaderField(content, "Year: "),
               document_type |-> SearchHeaderField(content, "Document Type: ")])

\* page_pattern = ={80}\n\[PAGE (\d+) OF (\d+)\]\n={80}
page_pattern ==
  <<Lit(Repeat("=", MarkerWidth)), Lit("\n[PAGE "), Plus("d"), Lit(" OF "), Plus("d"),
    Lit("]\n"), Lit(Repeat("=", MarkerWidth))>>

\* the run of digits of content that starts at offset a
DigitsAt(content, a) == Slice(content, a, a + RunLen(content, a + 1, "d"))

\* a variant of SplitAt with a defect: the text of a page runs on to the end of the file
SplitAtThroughEnd(content, ms) ==
  <<Slice(content, 0, IF ms = <<>> THEN Len(content) ELSE ms[1].start)>>
  \o Concat([k \in 1..Len(ms) |->
       <<DigitsAt(content, ms[k].start + MarkerWidth + 7),
         DigitsAt(content, ms[k].start + MarkerWidth + 7
                           + RunLen(content, ms[k].start + MarkerWidth + 8, "d") + 4),
         Slice(content, ms[k].end, Len(content))>>])

\* the pieces re.split yields for the markers ms: the text before the first marker, then
\* for each marker its two groups and the text up to the next marker
SplitAt(content, ms) ==
  <<Slice(content, 0, IF ms = <<>> THEN Len(content) ELSE ms[1].start)>>
  \o Concat([k \in 1..Len(ms) |->
       <<DigitsAt(content, ms[k].start + MarkerWidth + 7),
         DigitsAt(content, ms[k].start + MarkerWidth + 7
                           + RunLen(content, ms[k].start + MarkerWidth + 8, "d") + 4),
         Slice(content, ms[k].end, IF k < Len(ms) THEN ms[k + 1].start ELSE Len(content))>>])

\* re.split(page_pattern, content)
SplitPages(content) == SplitAt(content, Finditer(page_pattern, content))

\* the loop of parse_text_file over the split pieces; the loop index i of the source is
\* 0-based, so its test i + 2 <= len(pages) reads i + 1 <= Len(pages) here
PagesOf(pages) ==
  Map(LAMBDA i : [page_number |-> ParseInt(pages[i]),
                  total_pages |-> ParseInt(pages[i + 1]),
                  text        |-> pages[i + 2]],
      SelectSeq(Idx(Len(pages)), LAMBDA i : i >= 2 /\ (i - 2) % 3 = 0 /\ i + 1 <= Len(pages)))

parse_text_file(content) ==
  [metadata |-> extract_metadata_from_header(content), pages |-> PagesOf(SplitPages(content))]

(***************************************************************************)
(* Stage 2: the four extraction passes.  Each operator yields the records  *)
(* the pass appends, in the order it appends them.                         *)
(***************************************************************************)
TargetWindow == 200

TargetCap == 300

LanguageWindow == 150

LanguageCap == 250

InitiativeWindow == 200

InitiativeCap == 300

ImpactWindow == 100

ImpactCap == 200

\* a variant of Window with a defect: the text after the match is left out
WindowBefore(text, m, w) == Slice(text, Max2(0, m.start - w), m.end)

\* text[max(0, match.start() - w) : min(len(text), match.end() + w)]
Window(text, m, w) == Slice(text, Max2(0, m.start - w), Min2(Len(text), m.end + w))

\* a variant of Truncate with a defect: the cap is not applied
NoTruncate(context, cap) == context

\* context[:cap]
Truncate(context, cap) == Slice(context, 0, cap)

\* a variant of TargetEntryWith with a defect: the entry has no source_file
TargetEntryWithoutSource(page, metadata, m, context) ==
  [year            |-> Get(metadata, "year", "Unknown"),
   document        |-> Get(metadata, "document_type", "Unknown"),
   page_number     |-> page.page_number,
   target_text     |-> Slice(context, 0, TargetCap),
   percentages     |-> Join(", ", Findall(<<>>, percentage_group, percentage_rest, context)),
   target_years    |-> Join(", ", Findall(<<WordBoundary>>, year_group, <<WordBoundary>>, context)),
   keyword_matched |-> Group(page.text, m)]

\* the target_entry built for match m, given the context computed for it
TargetEntryWith(page, metadata, m, context) ==
  [year            |-> Get(metadata, "year", "Unknown"),
   document        |-> Get(metadata, "document_type", "Unknown"),
   source_file     |-> Get(metadata, "source_file", "Unknown"),
   page_number     |-> page.page_number,
   target_text     |-> Truncate(context, TargetCap),
   percentages     |-> Join(", ", Findall(<<>>, percentage_group, percentage_rest, context)),
   target_years    |-> Join(", ", Findall(<<WordBoundary>>, year_group, <<WordBoundary>>, context)),
   keyword_matched |-> Group(page.text, m)]

TargetEntry(page, metadata, m) ==
  TargetEntryWith(page, metadata, m, Collapse(Strip(Window(page.text, m, TargetWindow))))

\* a variant of extract_targets_and_goals with a defect: on a page, only the first pattern
\* that matches yields records
ExtractTargetsOfFirstPattern(pages, metadata) ==
  Concat([k \in 1..Len(pages) |->
    LET found == SelectSeq(Idx(Len(target_keywords)),
                           LAMBDA j : FinditerIgnoreCase(target_keywords[j], pages[k].text) # <<>>)
    IN  IF found = <<>> THEN <<>>
        ELSE Map(LAMBDA m : TargetEntry(pages[k], metadata, m),
                 FinditerIgnoreCase(target_keywords[found[1]], pages[k].text))])

extract_targets_and_goals(pages, metadata) ==
  Concat([k \in 1..Len(pages) |->
    Concat([j \in 1..Len(target_keywords) |->
      Map(LAMBDA m : TargetEntry(pages[k], metadata, m),
          FinditerIgnoreCase(target_keywords[j], pages[k].text))])])

\* a variant of LanguageEntry with a defect: the page count stands for the page number
LanguageEntryTotalPages(page, metadata, m, strength) ==
  [year                |-> Get(metadata, "year", "Unknown"),
   document            |-> Get(metadata, "document_type", "Unknown"),
   page_number         |-> page.total_pages,
   commitment_strength |-> strength,
   phrase              |-> Group(page.text, m),
   context             |-> Slice(Collapse(Slice(page.text, Max2(0, m.start - LanguageWindow),
                                                Min2(Len(page.text), m.end + LanguageWindow))),
                                 0, LanguageCap)]

LanguageEntry(page, metadata, m, strength) ==
  [year                |-> Get(metadata, "year", "Unknown"),
   document            |-> Get(metadata, "document_type", "Unknown"),
   page_number         |-> page.page_number,
   commitment_strength |-> strength,
   phrase              |-> Group(page.text, m),
   context             |-> Truncate(Collapse(Window(page.text, m, LanguageWindow)), LanguageCap)]

\* a variant of LanguageOfList with a defect: only the first occurrence of a phrase on a
\* page yields a record (re.search in place of re.finditer)
LanguageOfListFirstOnly(page, metadata, phrases, strength) ==
  Concat([j \in 1..Len(phrases) |->
    IF Contains(Lower(page.text), phrases[j])
    THEN <<LanguageEntry(page, metadata,
                         FinditerIgnoreCase(<<Lit(phrases[j])>>, page.text)[1], strength)>>
    ELSE <<>>])

\* one of the three loops of extract_language_patterns over a phrase list
LanguageOfList(page, metadata, phrases, strength) ==
  Concat([j \in 1..Len(phrases) |->
    IF Contains(Lower(page.text), phrases[j])
    THEN Map(LAMBDA m : LanguageEntry(page, metadata, m, strength),
             FinditerIgnoreCase(<<Lit(phrases[j])>>, page.text))
    ELSE <<>>])

\* the three phrase lists in the order extract_language_patterns walks them
commitment_lists ==
  <<[phrases |-> commitment_strong,   strength |-> "Strong"],
    [phrases |-> commitment_moderate, strength |-> "Moderate"],
    [phrases |-> commitment_weak,     strength |-> "Weak/Hedging"]>>

extract_language_patterns(pages, metadata) ==
  Concat([k \in 1..Len(pages) |->
    Concat([l \in 1..Len(commitment_lists) |->
      LanguageOfList(pages[k], metadata, commitment_lists[l].phrases, commitment_lists[l].strength)])])

\* currency_match.group(0) if currency_match else ''
GroupOrEmpty(s, ms) == IF ms # <<>> THEN Group(s, ms[1]) ELSE ""

\* the initiative_entry built for match m, given the context computed for it
InitiativeEntryWith(page, metadata, m, context) ==
  [year              |-> Get(metadata, "year", "Unknown"),
   document          |-> Get(metadata, "document_type", "Unknown"),
   page_number       |-> page.page_number,
   initiative_text   |-> Truncate(context, InitiativeCap),
   keyword_matched   |-> Group(page.text, m),
   investment_amount |-> GroupOrEmpty(context, Finditer(currency_pattern, context))]

InitiativeEntry(page, metadata, m) ==
  InitiativeEntryWith(page, metadata, m, Collapse(Window(page.text, m, InitiativeWindow)))

extract_initiatives(pages, metadata) ==
  Concat([k \in 1..Len(pages) |->
    Concat([j \in 1..Len(initiative_keywords) |->
      Map(LAMBDA m : InitiativeEntry(pages[k], metadata, m),
          FinditerIgnoreCase(initiative_keywords[j], pages[k].text))])])

\* a variant of ImpactEntriesWith with a defect: one record for every match
ImpactEntriesPerMatch(page, metadata, impact_area, keyword, text, matches) ==
  Map(LAMBDA m : [year             |-> Get(metadata, "year", "Unknown"),
                  document         |-> Get(metadata, "document_type", "Unknown"),
                  page_number      |-> page.page_number,
                  impact_area      |-> impact_area,
                  keyword          |-> keyword,
                  occurrence_count |-> Len(matches),
                  example_context  |-> Slice(Collapse(Slice(text, Max2(0, m.start - ImpactWindow),
                                                            Min2(Len(text), m.end + ImpactWindow))),
                                             0, ImpactCap)],
      matches)

\* the record of one keyword on one page, or nothing when it has no match
ImpactEntriesWith(page, metadata, impact_area, keyword, text, matches) ==
  IF matches # <<>>
  THEN <<[year             |-> Get(metadata, "year", "Unknown"),
          document         |-> Get(metadata, "document_type", "Unknown"),
          page_number      |-> page.page_number,
          impact_area      |-> impact_area,
          keyword          |-> keyword,
          occurrence_count |-> Len(matches),
          example_context  |-> Truncate(Collapse(Window(text, matches[1], ImpactWindow)), ImpactCap)]>>
  ELSE <<>>

ImpactEntries(page, metadata, impact_area, keyword) ==
  ImpactEntriesWith(page, metadata, impact_area, keyword, Lower(page.text),
                    Finditer(<<Lit(Lower(keyword))>>, Lower(page.text)))

extract_impact_areas(pages, metadata) ==
  Concat([k \in 1..Len(pages) |->
    Concat([a \in 1..Len(impact_keywords) |->
      Concat([j \in 1..Len(impact_keywords[a].keywords) |->
        ImpactEntries(pages[k], metadata, impact_keywords[a].area, impact_keywords[a].keywords[j])])])])

(***************************************************************************)
(* The documents of the model: six PDFs as stage 1 sees them, the text     *)
(* files stage 1 writes for them, and one text file that cannot be read.   *)
(***************************************************************************)
FillerText == Repeat("abcdefghi ", 25)

pdfPledge ==
  [dir |-> "extracted_reports/2022", name |-> "Net Zero Pledge.pdf", stem |-> "Net Zero Pledge",
   pages |-> <<"We are committed to achieving net zero by 2040, a 50% reduction from 2020 levels">>]

pdfGCS ==
  [dir |-> "extracted_reports/2023", name |-> "GCS Report.pdf", stem |-> "GCS Report",
   pages |-> <<"We plan to cut waste.\n",
               "Our goal is to reduce emissions by 30% by 2030.\nWe launched a water program and invested $5 million in solar energy.\n">>]

pdfSummary ==
  [dir |-> "extracted_reports/2023", name |-> "Sustainability Summary.pdf", stem |-> "Sustainability Summary",
   pages |-> <<"We plan to cut waste.\n">>]

pdf10K ==
  [dir |-> "extracted_reports/2021", name |-> "10K Filing.pdf", stem |-> "10K Filing",
   pages |-> <<"Net zero goal\n" \o Repeat("=", MarkerWidth) \o "\nTotal 5\n",
               "GHGHG and reuse, reuse.\n">>]

pdfCover ==
  [dir |-> "extracted_reports/misc", name |-> "Cover Letter.pdf", stem |-> "Cover Letter",
   pages |-> <<"Dear reader, see enclosed.\n", "Thank you.\n">>]

pdfCDP ==
  [dir |-> "extracted_reports/2024", name |-> "CDP Climate Response.pdf", stem |-> "CDP Climate Response",
   pages |-> <<FillerText \o "We are committed to a net zero carbon program. " \o FillerText
               \o "Carbon.">>]

\* a second PDF of the name and the year of pdfGCS, in a directory below it
pdfDraft ==
  [dir |-> "extracted_reports/2023/drafts", name |-> "GCS Report.pdf", stem |-> "GCS Report",
   pages |-> <<"Draft of the report.\n">>]

\* a page with phrases of all three lists, in upper and lower case and after a negation
pdfPolicy ==
  [dir |-> "extracted_reports/2025", name |-> "Climate Policy.pdf", stem |-> "Climate Policy",
   pages |-> <<"We are NOT Committed To coal. We may, and we MAY not, plan to grow; we have committed to nothing.\n",
               "We aim to set a science-based target: 30% below 1990 levels by 2030.\n">>]

Pdfs == <<pdfPledge, pdfGCS, pdfSummary, pdf10K, pdfCover, pdfCDP, pdfPolicy>>

\* what process_all_pdfs writes for one PDF: the name and the content of its text file
WrittenFile(pdf, year, doc_type) ==
  [name     |-> OutputFileName(pdf, year),
   pdf      |-> pdf,
   year     |-> year,
   doc_type |-> doc_type,
   content  |-> SaveExtractedText(ExtractWithPymupdf(pdf), pdf, year, doc_type)]

Stage1Output(pdf) == WrittenFile(pdf, ExtractYearFromPath(pdf), CategorizeDocument(pdf.name))

Stage1Files == Map(Stage1Output, Pdfs)

\* a file of the text directory whose bytes are not valid UTF-8: f.read() raises
BrokenFile == "2020_Broken_extracted.txt"

NamesOf(files) == {files[k].name : k \in 1..Len(files)}

FileNamed(files, n) == files[CHOOSE k \in 1..Len(files) : files[k].name = n]

ReadableNames == NamesOf(Stage1Files)

FileNames == ReadableNames \cup {BrokenFile}

FileOf == [n \in ReadableNames |-> FileNamed(Stage1Files, n)]

Readable(n) == n \in ReadableNames

\* the parse result and the records of each pass, tabulated per readable file
ParseOf == [n \in ReadableNames |-> parse_text_file(FileOf[n].content)]

\* what the four passes append for a parsed file
Extracted(parsed) ==
  [targets      |-> extract_targets_and_goals(parsed.pages, parsed.metadata),
   language     |-> extract_language_patterns(parsed.pages, parsed.metadata),
   initiatives  |-> extract_initiatives(parsed.pages, parsed.metadata),
   impact_areas |-> extract_impact_areas(parsed.pages, parsed.metadata)]

ExtractedOf == [n \in DOMAIN ParseOf |-> Extracted(ParseOf[n])]


(***************************************************************************)
(* Ordering: sorted(...) over file names and over paths                    *)
(***************************************************************************)
\* the characters of the file names, in ASCII order
AsciiOrder == " &-.0123456789ABCDEFGHIJKLMNOPQRSTUVWXYZ_abcdefghijklmnopqrstuvwxyz"

Code(c) == CHOOSE k \in 1..Len(AsciiOrder) : Ch(AsciiOrder, k) = c

\* a < b for two sequences that first differ at the positions diff
LessAt(Less(_, _), a, b, diff) ==
  IF diff = <<>> THEN Len(a) < Len(b) ELSE Less(a[diff[1]], b[diff[1]])

CodeLess(c, d) == Code(c) < Code(d)

\* a < b for str
LexLess(a, b) ==
  LessAt(CodeLess, [i \in 1..Len(a) |-> Ch(a, i)], [i \in 1..Len(b) |-> Ch(b, i)],
         SelectSeq(Idx(Min2(Len(a), Len(b))), LAMBDA i : Ch(a, i) # Ch(b, i)))

Range(seq) == {seq[i] : i \in 1..Len(seq)}

\* the members of a set in ascending order
SortedSet(Less(_, _), set) ==
  [k \in 1..Cardinality(set) |-> CHOOSE x \in set : Cardinality({y \in set : Less(y, x)}) = k - 1]

\* sorted(listing): the paths of a directory listing are pairwise distinct
SortedBy(Less(_, _), listing) == SortedSet(Less, Range(listing))

\* a variant of Sorted with a defect: the listing is left in the order of the directory
Unsorted(listing) == listing

Sorted(listing) == SortedBy(LexLess, listing)

\* the components of a path
PartsAt(path, cuts) == [k \in 1..(Len(cuts) - 1) |-> SubSeq(path, cuts[k] + 1, cuts[k + 1] - 1)]

Parts(path) ==
  PartsAt(path, <<0>> \o SelectSeq(Idx(Len(path)), LAMBDA i : Ch(path, i) = "/") \o <<Len(path) + 1>>)

PartsOf(pdf) == Parts(pdf.dir) \o <<pdf.name>>

\* a < b for two Path objects: their components are compared one by one
PartsLess(a, b) ==
  LessAt(LexLess, a, b, SelectSeq(Idx(Min2(Len(a), Len(b))), LAMBDA i : a[i] # b[i]))

PathLess(a, b) == PartsLess(PartsOf(a), PartsOf(b))

SortedPaths(listing) == SortedBy(PathLess, listing)

\* the orders in which glob may list the members of a directory
Listings(dir) == {l \in [1..Cardinality(dir) -> dir] : Range(l) = dir}

(***************************************************************************)
(* The state of the three stages.  Each stage is explored by a             *)
(* specification of its own, in which the other stages stand still.        *)
(***************************************************************************)
VARIABLES
  \* stage 1
  pdf_files,           \* sorted(pdf_files), the list the loop of process_all_pdfs walks
  pdf_idx,             \* the position of the loop in pdf_files
  pc1,                 \* where the run of stage 1 stands
  unreadable,          \* the PDFs fitz.open raises on
  unwritable,          \* the PDFs whose output text file cannot be opened for writing
  extraction_log,      \* self.extraction_log
  text_output,         \* the *_extracted.txt files of the output directory, by name
  metadata_output,     \* the names of the *_metadata.json files of the output directory
  log_file,            \* extraction_log.json
  summary_file,        \* extraction_summary.txt
  console1,            \* what stage 1 printed
  \* stage 2
  text_dir,            \* the *_extracted.txt files in the text directory of this run
  text_files,          \* sorted(text_files), the list the loop walks
  idx,                 \* the position of the loop in text_files
  pc,                  \* where the run of stage 2 stands
  rerun,               \* FALSE in the first run, TRUE in the second
  targets_data,        \* self.targets_data
  language_data,       \* self.language_data
  initiatives_data,    \* self.initiatives_data
  impact_areas_data,   \* self.impact_areas_data
  origin,              \* history: for each collection, the file each record was appended for
  csv,                 \* the four CSV files of the output directory
  statistics,          \* extraction_statistics.txt
  console,             \* what stage 2 printed
  prev,                \* history: the text files and the CSV files at the end of the first run
  \* stage 3
  data_dir,            \* the four CSV files stage 3 finds in its data directory
  frames,              \* targets_df, language_df, initiatives_df, impact_df
  pc3,                 \* where the run of stage 3 stands
  analysis_tables,     \* the CSV files of analysis_output/tables, by name
  charts,              \* the names of the PNG files of analysis_output/charts
  report,              \* analysis_summary_report.txt
  console3,            \* what stage 3 printed
  \* the file system and the process
  dirs,                \* the directories that exist beside the scripts
  running,             \* the stage script whose process runs: 1, 2 or 3 (0: none)
  \* the orchestrator
  env,                 \* what the orchestrator finds: the PDFs, the scripts, stray files
  pc0,                 \* where run_complete_analysis stands
  step,                \* the position of the loop in self.scripts
  events,              \* history: the processes started and ended, in order
  success_steps,       \* success_steps
  failed_steps,        \* failed_steps
  execution_log,       \* analysis_execution_log.txt
  console0,            \* what the orchestrator printed
  \* calls of the path functions of stage 1
  pdf_path,            \* the path the functions are called with
  doc_type,            \* what categorize_document returned, once it was called
  year_found,          \* what extract_year_from_path returned, once it was called
  written_text,        \* the text save_extracted_text wrote, once it was called
  parse_result         \* what parse_text_file returned for that text, once it was called

stage1 == <<pdf_files, pdf_idx, pc1, unreadable, unwritable, extraction_log, text_output,
            metadata_output, log_file, summary_file, console1>>

stage2 == <<text_dir, text_files, idx, pc, rerun, targets_data, language_data, initiatives_data,
            impact_areas_data, origin, csv, statistics, console, prev>>

stage3 == <<data_dir, frames, pc3, analysis_tables, charts, report, console3>>

stage0 == <<env, pc0, step, events, success_steps, failed_steps, execution_log, console0>>

calls == <<pdf_path, doc_type, year_found, written_text, parse_result>>

\* what a step inside a stage leaves alone
outside == <<dirs, running, stage0, calls>>

vars == <<stage1, stage2, stage3, dirs, running, stage0, calls>>

Msg(kind, file, n) == [kind |-> kind, file |-> file, n |-> n]

Tables == {"targets", "language", "initiatives", "impact_areas"}

NoFile == [exists |-> FALSE, rows |-> <<>>]

NoCsv == [t \in Tables |-> NoFile]

NoStatistics ==
  [exists |-> FALSE, targets |-> 0, language |-> 0, initiatives |-> 0, impact_areas |-> 0,
   targets_by_year |-> <<>>, language_by_strength |-> <<>>, impact_by_area |-> <<>>]

NoOrigin == [t \in Tables |-> <<>>]

NoLog == [exists |-> FALSE, total_files_processed |-> 0, files |-> <<>>]

NoSummary == [exists |-> FALSE, complete |-> FALSE, total_files_processed |-> 0, by_year |-> <<>>]

NoReport == [exists |-> FALSE]

\* stage 1 before main() runs, in a fresh output directory
Stage1Idle ==
  /\ pdf_files = <<>>
  /\ pdf_idx = 0
  /\ pc1 = "start"
  /\ unreadable = {}
  /\ unwritable = {}
  /\ extraction_log = <<>>
  /\ text_output = <<>>
  /\ metadata_output = {}
  /\ log_file = NoLog
  /\ summary_file = NoSummary
  /\ console1 = <<>>

\* stage 2 before main() runs, in a fresh output directory
Stage2Idle ==
  /\ text_dir = {}
  /\ text_files = <<>>
  /\ idx = 0
  /\ pc = "start"
  /\ rerun = FALSE
  /\ targets_data = <<>>
  /\ language_data = <<>>
  /\ initiatives_data = <<>>
  /\ impact_areas_data = <<>>
  /\ origin = NoOrigin
  /\ csv = NoCsv
  /\ statistics = NoStatistics
  /\ console = <<>>
  /\ prev = [dir |-> {}, csv |-> NoCsv]

\* stage 3 before main() runs, in a fresh output directory and with no input
Stage3Idle ==
  /\ data_dir = NoCsv
  /\ frames = [t \in Tables |-> <<>>]
  /\ pc3 = "start"
  /\ analysis_tables = <<>>
  /\ charts = {}
  /\ report = NoReport
  /\ console3 = <<>>

\* the directories beside the scripts, as the main() functions name them
ReportsDir == "extracted_reports"

TextDir == "text_extraction_output"

DataDir == "structured_data_output"

AnalysisDir == "analysis_output"

ChartsDir == "analysis_output/charts"

TablesDir == "analysis_output/tables"

\* the scripts of the stages, in the order of self.scripts
Scripts ==
  <<"02_pdf_text_extractor.py", "03_esg_data_extractor.py",
    "04_quantitative_analysis_visualization.py">>

NoEnv == [pdfs |-> {}, cannot_open |-> {}, cannot_write |-> {}, strays |-> {},
          missing |-> {}, launch_fails |-> {}]

NoExecutionLog == [exists |-> FALSE, completed |-> <<>>, failed |-> <<>>]

NoPath == [dir |-> "", name |-> ""]

\* the orchestrator before it runs
Stage0Idle ==
  /\ env = NoEnv
  /\ pc0 = "start"
  /\ step = 0
  /\ events = <<>>
  /\ success_steps = <<>>
  /\ failed_steps = <<>>
  /\ execution_log = NoExecutionLog
  /\ console0 = <<>>

\* no call of a path function
CallsIdle ==
  /\ pdf_path = NoPath
  /\ doc_type = <<>>
  /\ year_found = <<>>
  /\ written_text = <<>>
  /\ parse_result = <<>>

\* a variant of InputExists with a defect: main() does not look for the directory
InputAssumed(dir) == TRUE

\* input_dir.exists(), text_dir.exists(), data_dir.exists() in the main() functions
InputExists(dir) == dir \in dirs

(***************************************************************************)
(* Stage 2 as a state machine: ESGDataExtractor.__init__,                  *)
(* process_all_text_files, save_all_data, create_summary_statistics.       *)
(* A first run works in a fresh output directory; a second run may follow  *)
(* it into the same output directory, over the same or other text files.   *)
(***************************************************************************)
MaxFiles == 2

\* 03_esg_data_extractor.py is run by hand; the text directory may be absent
Init ==
  /\ Stage1Idle /\ Stage2Idle /\ Stage3Idle /\ Stage0Idle /\ CallsIdle
  /\ running = 2
  /\ dirs \in SUBSET {TextDir}

\* main() finds no text directory: it prints the error and returns
MainWithoutTextDir ==
  /\ running = 2
  /\ pc = "start"
  /\ ~InputExists(TextDir)
  /\ console' = <<Msg("directory not found", TextDir, 0)>>
  /\ pc' = "aborted"
  /\ UNCHANGED <<text_dir, text_files, idx, rerun, targets_data, language_data, initiatives_data,
                 impact_areas_data, origin, csv, statistics, prev, stage1, stage3, outside>>

\* main() and __init__, then process_all_text_files up to the loop: the collections start
\* empty, glob lists the files in some order, and an empty listing ends the run
StartRun(dir, listing) ==
  /\ running = 2
  /\ pc \in {"start", "done"}
  /\ InputExists(TextDir)
  /\ dirs' = dirs \cup {DataDir}
  /\ pc = "done" => ~rerun
  /\ rerun' = (pc = "done")
  /\ prev' = IF pc = "done" THEN [dir |-> text_dir, csv |-> csv] ELSE prev
  /\ text_dir' = dir
  /\ targets_data' = <<>>
  /\ language_data' = <<>>
  /\ initiatives_data' = <<>>
  /\ impact_areas_data' = <<>>
  /\ origin' = NoOrigin
  /\ IF listing = <<>>
     THEN /\ text_files' = <<>>
          /\ idx' = 0
          /\ console' = <<Msg("found", "", 0), Msg("none", "", 0)>>
          /\ pc' = "done"
     ELSE /\ text_files' = Sorted(listing)
          /\ idx' = 1
          /\ console' = <<Msg("found", "", Len(listing))>>
          /\ pc' = "parse"
  /\ UNCHANGED <<csv, statistics, stage1, stage3, running, stage0, calls>>

\* the loop moves to the next file, or leaves for save_all_data
NextPc == IF idx < Len(text_files) THEN "parse" ELSE "save"

\* try: parse_text_file(file_path) succeeds
ParseFile ==
  /\ pc = "parse"
  /\ Readable(text_files[idx])
  /\ console' = Append(console, Msg("processing", text_files[idx], 0))
  /\ pc' = "targets"
  /\ UNCHANGED <<text_dir, text_files, idx, rerun, targets_data, language_data, initiatives_data,
                 impact_areas_data, origin, csv, statistics, prev, stage1, stage3, outside>>

\* parse_text_file raises: except Exception prints the error and the loop goes on
ParseFileFails ==
  /\ pc = "parse"
  /\ ~Readable(text_files[idx])
  /\ console' = console \o <<Msg("processing", text_files[idx], 0), Msg("error", text_files[idx], 0)>>
  /\ idx' = idx + 1
  /\ pc' = NextPc
  /\ UNCHANGED <<text_dir, text_files, rerun, targets_data, language_data, initiatives_data,
                 impact_areas_data, origin, csv, statistics, prev, stage1, stage3, outside>>

\* the history of a collection after records of file were appended to it
Stamp(history, data, file) == history \o [i \in 1..(Len(data) - Len(history)) |-> file]

ExtractTargets ==
  /\ pc = "targets"
  /\ targets_data' = targets_data \o ExtractedOf[text_files[idx]].targets
  /\ origin' = [origin EXCEPT !.targets = Stamp(@, targets_data', text_files[idx])]
  /\ pc' = "language"
  /\ UNCHANGED <<text_dir, text_files, idx, rerun, language_data, initiatives_data,
                 impact_areas_data, csv, statistics, console, prev, stage1, stage3, outside>>

\* a variant of ExtractLanguage with a defect: the new records are put before the old
ExtractLanguagePrepends ==
  /\ pc = "language"
  /\ language_data' = ExtractedOf[text_files[idx]].language \o language_data
  /\ origin' = [origin EXCEPT !.language = Stamp(@, language_data', text_files[idx])]
  /\ pc' = "initiatives"
  /\ UNCHANGED <<text_dir, text_files, idx, rerun, targets_data, initiatives_data,
                 impact_areas_data, csv, statistics, console, prev, stage1, stage3, outside>>

ExtractLanguage ==
  /\ pc = "language"
  /\ language_data' = language_data \o ExtractedOf[text_files[idx]].language
  /\ origin' = [origin EXCEPT !.language = Stamp(@, language_data', text_files[idx])]
  /\ pc' = "initiatives"
  /\ UNCHANGED <<text_dir, text_files, idx, rerun, targets_data, initiatives_data,
                 impact_areas_data, csv, statistics, console, prev, stage1, stage3, outside>>

ExtractInitiatives ==
  /\ pc = "initiatives"
  /\ initiatives_data' = initiatives_data \o ExtractedOf[text_files[idx]].initiatives
  /\ origin' = [origin EXCEPT !.initiatives = Stamp(@, initiatives_data', text_files[idx])]
  /\ pc' = "impact"
  /\ UNCHANGED <<text_dir, text_files, idx, rerun, targets_data, language_data,
                 impact_areas_data, csv, statistics, console, prev, stage1, stage3, outside>>

\* the last pass of the try block, then the success message
ExtractImpactAreas ==
  /\ pc = "impact"
  /\ impact_areas_data' = impact_areas_data \o ExtractedOf[text_files[idx]].impact_areas
  /\ origin' = [origin EXCEPT !.impact_areas = Stamp(@, impact_areas_data', text_files[idx])]
  /\ console' = Append(console, Msg("ok", text_files[idx], Len(ParseOf[text_files[idx]].pages)))
  /\ idx' = idx + 1
  /\ pc' = NextPc
  /\ UNCHANGED <<text_dir, text_files, rerun, targets_data, language_data, initiatives_data,
                 csv, statistics, prev, stage1, stage3, outside>>

\* the values of a column
Column(records, column) == [i \in 1..Len(records) |-> records[i][column]]

\* how often each of the values occurs in a column
CountOf(values) == [v \in Range(values) |-> Cardinality({i \in 1..Len(values) : values[i] = v})]

\* value_counts of a column, as a mapping (the order of the lines is left out)
CountBy(records, column) == CountOf(Column(records, column))

RECURSIVE SumOver(_, _, _)
SumOver(records, column, n) ==
  IF n = 0 THEN 0 ELSE records[n][column] + SumOver(records, column, n - 1)

SumAll(records, column) == SumOver(records, column, Len(records))

\* groupby(key)[column].sum(), as a mapping
SumBy(records, key, column) ==
  [v \in Range(Column(records, key)) |-> SumAll(SelectSeq(records, LAMBDA r : r[key] = v), column)]

\* to_csv of a collection that is not empty; an empty collection writes nothing
WriteCsv(file, data) == IF data # <<>> THEN [exists |-> TRUE, rows |-> data] ELSE file

SavedMsg(table, data) == IF data # <<>> THEN <<Msg("saved", table, Len(data))>> ELSE <<>>

\* create_summary_statistics: the four totals, and a breakdown for each collection that is
\* not empty
SummaryStatistics ==
  [exists               |-> TRUE,
   targets              |-> Len(targets_data),
   language             |-> Len(language_data),
   initiatives          |-> Len(initiatives_data),
   impact_areas         |-> Len(impact_areas_data),
   targets_by_year      |-> IF targets_data # <<>> THEN CountBy(targets_data, "year") ELSE <<>>,
   language_by_strength |-> IF language_data # <<>> THEN CountBy(language_data, "commitment_strength") ELSE <<>>,
   impact_by_area       |-> IF impact_areas_data # <<>>
                            THEN SumBy(impact_areas_data, "impact_area", "occurrence_count") ELSE <<>>]

\* save_all_data, which ends with create_summary_statistics
SaveAllData ==
  /\ pc = "save"
  /\ csv' = [targets      |-> WriteCsv(csv.targets, targets_data),
             language     |-> WriteCsv(csv.language, language_data),
             initiatives  |-> WriteCsv(csv.initiatives, initiatives_data),
             impact_areas |-> WriteCsv(csv.impact_areas, impact_areas_data)]
  /\ statistics' = SummaryStatistics
  /\ console' = console \o SavedMsg("targets", targets_data) \o SavedMsg("language", language_data)
                  \o SavedMsg("initiatives", initiatives_data)
                  \o SavedMsg("impact_areas", impact_areas_data) \o <<Msg("statistics", "", 0)>>
  /\ pc' = "done"
  /\ UNCHANGED <<text_dir, text_files, idx, rerun, targets_data, language_data, initiatives_data,
                 impact_areas_data, origin, prev, stage1, stage3, outside>>

Directories == {d \in SUBSET FileNames : Cardinality(d) <= MaxFiles}

Next ==
  \/ MainWithoutTextDir
  \/ \E dir \in Directories : \E listing \in Listings(dir) : StartRun(dir, listing)
  \/ ParseFile
  \/ ParseFileFails
  \/ ExtractTargets
  \/ ExtractLanguage
  \/ ExtractInitiatives
  \/ ExtractImpactAreas
  \/ SaveAllData

Spec == Init /\ [][Next]_vars

(***************************************************************************)
(* Stage 1 as a state machine: PDFTextExtractor.__init__,                  *)
(* process_all_pdfs, extract_text_from_pdf, save_extracted_text,           *)
(* save_extraction_log, in a fresh output directory.  Which PDFs PyMuPDF   *)
(* cannot open and which output files cannot be written is given with the *)
(* input.                                                                  *)
(***************************************************************************)
MaxPdfs == 2

\* 02_pdf_text_extractor.py is run by hand; the directory of the PDFs may be absent
InitStage1 ==
  /\ Stage1Idle /\ Stage2Idle /\ Stage3Idle /\ Stage0Idle /\ CallsIdle
  /\ running = 1
  /\ dirs \in SUBSET {ReportsDir}

\* main() finds no input directory: it prints the error and returns
MainWithoutReports ==
  /\ running = 1
  /\ pc1 = "start"
  /\ ~InputExists(ReportsDir)
  /\ console1' = <<Msg("directory not found", ReportsDir, 0)>>
  /\ pc1' = "aborted"
  /\ UNCHANGED <<pdf_files, pdf_idx, unreadable, unwritable, extraction_log, text_output,
                 metadata_output, log_file, summary_file, stage2, stage3, outside>>

\* main() and __init__, then process_all_pdfs up to the loop: rglob lists the PDFs in
\* some order, and an empty listing ends the run
FindPdfs(listing, cannot_open, cannot_write) ==
  /\ running = 1
  /\ pc1 = "start"
  /\ InputExists(ReportsDir)
  /\ dirs' = dirs \cup {TextDir}
  /\ unreadable' = cannot_open
  /\ unwritable' = cannot_write
  /\ IF listing = <<>>
     THEN /\ pdf_files' = <<>>
          /\ pdf_idx' = 0
          /\ console1' = <<Msg("found", "", 0), Msg("none", "", 0)>>
          /\ pc1' = "done"
     ELSE /\ pdf_files' = SortedPaths(listing)
          /\ pdf_idx' = 1
          /\ console1' = <<Msg("found", "", Len(listing))>>
          /\ pc1' = "extract"
  /\ UNCHANGED <<extraction_log, text_output, metadata_output, log_file, summary_file,
                 stage2, stage3, running, stage0, calls>>

\* the loop moves to the next PDF, or leaves for save_extraction_log
NextPc1 == IF pdf_idx < Len(pdf_files) THEN "extract" ELSE "log"

\* extract_text_from_pdf returns the pages of the PDF
ExtractText ==
  /\ pc1 = "extract"
  /\ pdf_files[pdf_idx] \notin unreadable
  /\ pdf_files[pdf_idx].pages # <<>>
  /\ console1' = console1 \o <<Msg("processing", pdf_files[pdf_idx].name, 0),
                               Msg("extracted", pdf_files[pdf_idx].name, Len(pdf_files[pdf_idx].pages))>>
  /\ pc1' = "save"
  /\ UNCHANGED <<pdf_files, pdf_idx, unreadable, unwritable, extraction_log, text_output,
                 metadata_output, log_file, summary_file, stage2, stage3, outside>>

\* what extract_with_pymupdf prints when fitz.open raises
OpenFailure(pdf) == IF pdf \in unreadable THEN <<Msg("pymupdf failed", pdf.name, 0)>> ELSE <<>>

\* extract_with_pymupdf catches the exception of fitz.open, or the PDF has no page:
\* extract_text_from_pdf returns None and the loop goes on
ExtractTextFails ==
  /\ pc1 = "extract"
  /\ pdf_files[pdf_idx] \in unreadable \/ pdf_files[pdf_idx].pages = <<>>
  /\ console1' = console1 \o <<Msg("processing", pdf_files[pdf_idx].name, 0)>>
                   \o OpenFailure(pdf_files[pdf_idx])
                   \o <<Msg("extraction failed", pdf_files[pdf_idx].name, 0)>>
  /\ pdf_idx' = pdf_idx + 1
  /\ pc1' = NextPc1
  /\ UNCHANGED <<pdf_files, unreadable, unwritable, extraction_log, text_output,
                 metadata_output, log_file, summary_file, stage2, stage3, outside>>

\* the directory after the file name was written: an existing file is replaced
Put(dir, name, content) == [n \in DOMAIN dir \cup {name} |-> IF n = name THEN content ELSE dir[n]]

MetadataFileName(pdf, year) == YearText(year) \o "_" \o SafeName(pdf.stem) \o "_metadata.json"

\* the metadata save_extracted_text returns, with the extraction_method the loop adds
LogEntry(file) ==
  [original_file     |-> file.pdf.name,
   year              |-> file.year,
   document_type     |-> file.doc_type,
   total_pages       |-> Len(file.pdf.pages),
   output_file       |-> file.name,
   extraction_method |-> "pymupdf"]

\* save_extracted_text writes the text file and the metadata file; the loop appends the
\* metadata to the log
SaveText ==
  /\ pc1 = "save"
  /\ pdf_files[pdf_idx] \notin unwritable
  /\ text_output' = Put(text_output, Stage1Output(pdf_files[pdf_idx]).name,
                        Stage1Output(pdf_files[pdf_idx]).content)
  /\ metadata_output' = metadata_output
       \cup {MetadataFileName(pdf_files[pdf_idx], ExtractYearFromPath(pdf_files[pdf_idx]))}
  /\ console1' = Append(console1, Msg("saved", Stage1Output(pdf_files[pdf_idx]).name, 0))
  /\ extraction_log' = Append(extraction_log, LogEntry(Stage1Output(pdf_files[pdf_idx])))
  /\ pdf_idx' = pdf_idx + 1
  /\ pc1' = NextPc1
  /\ UNCHANGED <<pdf_files, unreadable, unwritable, log_file, summary_file, stage2, stage3, outside>>

\* open(output_file, 'w') raises in save_extracted_text, which process_all_pdfs calls
\* outside any try: the exception ends the run
SaveTextRaises ==
  /\ pc1 = "save"
  /\ pdf_files[pdf_idx] \in unwritable
  /\ console1' = Append(console1, Msg("traceback", pdf_files[pdf_idx].name, 0))
  /\ pc1' = "crashed"
  /\ UNCHANGED <<pdf_files, pdf_idx, unreadable, unwritable, extraction_log, text_output,
                 metadata_output, log_file, summary_file, stage2, stage3, outside>>

\* the keys of by_year: the years of the log
LogYears == Range(Column(extraction_log, "year"))

\* sorted(by_year.keys()) cannot compare an int with the str 'Unknown'
MixedYears == \E a \in LogYears : \E b \in LogYears : "int" \in DOMAIN a /\ "str" \in DOMAIN b

YearLess(a, b) == "int" \in DOMAIN a /\ "int" \in DOMAIN b /\ a.int < b.int

\* the groups of extraction_summary.txt: for each year in sorted order, its log entries
SummaryGroups(years) ==
  [k \in 1..Len(years) |->
     [year |-> years[k], items |-> SelectSeq(extraction_log, LAMBDA item : item.year = years[k])]]

\* extraction_log.json as save_extraction_log writes it
WrittenLog ==
  [exists |-> TRUE, total_files_processed |-> Len(extraction_log), files |-> extraction_log]

\* save_extraction_log, then the closing messages of process_all_pdfs
SaveExtractionLog ==
  /\ pc1 = "log"
  /\ ~MixedYears
  /\ log_file' = WrittenLog
  /\ summary_file' = [exists |-> TRUE, complete |-> TRUE,
                      total_files_processed |-> Len(extraction_log),
                      by_year |-> SummaryGroups(SortedBy(YearLess, Column(extraction_log, "year")))]
  /\ console1' = Append(console1, Msg("complete", "", Len(extraction_log)))
  /\ pc1' = "done"
  /\ UNCHANGED <<pdf_files, pdf_idx, unreadable, unwritable, extraction_log, text_output,
                 metadata_output, stage2, stage3, outside>>

\* save_extraction_log writes extraction_log.json and the head of extraction_summary.txt,
\* then sorted(by_year.keys()) raises TypeError and ends the run
SaveExtractionLogRaises ==
  /\ pc1 = "log"
  /\ MixedYears
  /\ log_file' = WrittenLog
  /\ summary_file' = [exists |-> TRUE, complete |-> FALSE,
                      total_files_processed |-> Len(extraction_log), by_year |-> <<>>]
  /\ console1' = Append(console1, Msg("traceback", "", 0))
  /\ pc1' = "crashed"
  /\ UNCHANGED <<pdf_files, pdf_idx, unreadable, unwritable, extraction_log, text_output,
                 metadata_output, stage2, stage3, outside>>

\* the PDFs rglob may find under the input directory
PdfBatches == {b \in SUBSET (Range(Pdfs) \cup {pdfDraft}) : Cardinality(b) <= MaxPdfs}

Stage1Next ==
  \/ MainWithoutReports
  \/ \E found \in PdfBatches : \E listing \in Listings(found) :
       \E cannot_open \in SUBSET found : \E cannot_write \in SUBSET found :
         FindPdfs(listing, cannot_open, cannot_write)
  \/ ExtractText
  \/ ExtractTextFails
  \/ SaveText
  \/ SaveTextRaises
  \/ SaveExtractionLog
  \/ SaveExtractionLogRaises

SpecStage1 == InitStage1 /\ [][Stage1Next]_vars

(***************************************************************************)
(* Stage 3 as a state machine: ESGAnalyzer.__init__ with load_data, then   *)
(* the six steps of run_all_analyses.  A missing value (NaN) is the empty  *)
(* sequence, a present value v is <<v>>; a quotient of two integers is     *)
(* kept exact as [num, den].                                               *)
(***************************************************************************)
MaxPerYear == 3

\* the year cells a targets CSV of the model holds
YearCells == <<"2021", "2022", "2023", "Unknown">>

IsNumeric(cell) == Len(cell) > 0 /\ \A i \in 1..Len(cell) : IsDigit(Ch(cell, i))

\* pd.to_numeric(cell, errors='coerce')
ToNumeric(cell) == IF IsNumeric(cell) THEN <<ParseInt(cell)>> ELSE <<>>

\* df['year_numeric'] = pd.to_numeric(df['year'], errors='coerce')
WithYearNumeric(rows) ==
  [i \in 1..Len(rows) |-> [year_numeric |-> ToNumeric(rows[i].year)] @@ rows[i]]

\* the values of a column that are not missing
Present(values) == Concat(values)

\* the positions at which a value occurs for the first time
FirstSeen(values) == SelectSeq(Idx(Len(values)), LAMBDA i : \A j \in 1..(i - 1) : values[j] # values[i])

\* value_counts(): one line per value, the most frequent first (among equal counts the
\* value seen first; sort_index() leaves no trace of that choice)
CountLines(values, counts) ==
  SortedSet(LAMBDA a, b : a.count > b.count \/ (a.count = b.count /\ a.first < b.first),
            {[value |-> values[i], count |-> counts[values[i]], first |-> i] : i \in Range(FirstSeen(values))})

ValueCounts(values) ==
  Map(LAMBDA l : [value |-> l.value, count |-> l.count], CountLines(values, CountOf(values)))

\* sort_index(): the lines in ascending order of their value
SortIndex(lines) == SortedSet(LAMBDA a, b : a.value < b.value, Range(lines))

\* df[column].value_counts().sort_index() on a column with missing values
CountsByYear(rows) == SortIndex(ValueCounts(Present(Column(rows, "year_numeric"))))

Ratio(a, b) == [num |-> a, den |-> b]

RatioMinus(r, n) == [num |-> r.num - n * r.den, den |-> r.den]

RatioTimes(r, n) == [num |-> r.num * n, den |-> r.den]

RatioEq(r, s) == r.num * s.den = s.num * r.den

\* Series.diff()
Diff(col) == [k \in 1..Len(col) |-> IF k = 1 THEN <<>> ELSE <<col[k] - col[k - 1]>>]

\* a variant of PctChange with a defect: the quotient is taken, the 1 is not subtracted
PctOfPrevious(col) ==
  [k \in 1..Len(col) |-> IF k = 1 THEN <<>> ELSE <<Ratio(col[k], col[k - 1])>>]

\* Series.pct_change(): col / col.shift(1) - 1
PctChange(col) ==
  [k \in 1..Len(col) |-> IF k = 1 THEN <<>> ELSE <<RatioMinus(Ratio(col[k], col[k - 1]), 1)>>]

\* the rows of summary_table, from its two first columns and the two computed ones
SummaryRows(lines, diff, pct) ==
  [k \in 1..Len(lines) |->
     [Year            |-> lines[k].value,
      Target_Mentions |-> lines[k].count,
      YoY_Change      |-> diff[k],
      YoY_Pct_Change  |-> Map(LAMBDA r : RatioTimes(r, 100), pct[k])]]

SummaryOf(lines) ==
  SummaryRows(lines, Diff(Column(lines, "count")), PctChange(Column(lines, "count")))

\* the summary_table of analyze_targets_over_time
SummaryTable(rows) == SummaryOf(CountsByYear(rows))

\* groupby(['year_numeric', key]).size().unstack(fill_value=0), or with sum() of a column:
\* one row per year in ascending order, one cell per value of key
Unstacked(rows, years, key, Cell(_, _)) ==
  [k \in 1..Len(years) |->
     [year  |-> years[k],
      cells |-> [v \in Range(Column(rows, key)) |->
                   Cell(years[k],
                        SelectSeq(rows, LAMBDA r : r.year_numeric = <<years[k]>> /\ r[key] = v))]]]

YearsOf(rows) == SortedSet(LAMBDA a, b : a < b, Range(Present(Column(rows, "year_numeric"))))

LanguageCounts(rows) ==
  Unstacked(rows, YearsOf(rows), "commitment_strength", LAMBDA year, cell : Len(cell))

\* language_by_year_strength.div(language_by_year_strength.sum(axis=1), axis=0) * 100
LanguagePercentages(rows) ==
  Unstacked(rows, YearsOf(rows), "commitment_strength",
            LAMBDA year, cell :
              RatioTimes(Ratio(Len(cell), Len(SelectSeq(rows, LAMBDA r : r.year_numeric = <<year>>))), 100))

ImpactByYear(rows) ==
  Unstacked(rows, YearsOf(rows), "impact_area", LAMBDA year, cell : SumAll(cell, "occurrence_count"))

\* no row of the table has a numeric year: grouping by year_numeric leaves an empty frame
NoNumericYear(rows) == \A i \in 1..Len(rows) : rows[i].year_numeric = <<>>

\* read_csv of one file, or an empty DataFrame when the file is not found
Loaded(file) == IF file.exists THEN file.rows ELSE <<>>

LoadedMsg(table, file) ==
  IF file.exists THEN Msg("loaded", table, Len(file.rows)) ELSE Msg("not found", table, 0)

\* main() finds no data directory: it prints the error and returns
MainWithoutDataDir ==
  /\ running = 3
  /\ pc3 = "start"
  /\ ~InputExists(DataDir)
  /\ console3' = <<Msg("directory not found", DataDir, 0)>>
  /\ pc3' = "aborted"
  /\ UNCHANGED <<data_dir, frames, analysis_tables, charts, report, stage1, stage2, outside>>

\* main() and __init__: the output directories are made and load_data reads the four CSV
\* files
LoadData ==
  /\ running = 3
  /\ pc3 = "start"
  /\ InputExists(DataDir)
  /\ dirs' = dirs \cup {AnalysisDir, ChartsDir, TablesDir}
  /\ frames' = [t \in Tables |-> Loaded(data_dir[t])]
  /\ console3' = <<LoadedMsg("targets", data_dir.targets), LoadedMsg("language", data_dir.language),
                   LoadedMsg("initiatives", data_dir.initiatives),
                   LoadedMsg("impact_areas", data_dir.impact_areas)>>
  /\ pc3' = "targets"
  /\ UNCHANGED <<data_dir, analysis_tables, charts, report, stage1, stage2, running, stage0, calls>>

AnalyzeTargetsOverTime ==
  /\ pc3 = "targets"
  /\ IF frames.targets = <<>>
     THEN /\ console3' = Append(console3, Msg("no data", "targets", 0))
          /\ UNCHANGED <<frames, charts, analysis_tables>>
     ELSE /\ frames' = [frames EXCEPT !.targets = WithYearNumeric(@)]
          /\ charts' = charts \cup {"targets_by_year.png"}
          /\ analysis_tables' = Put(analysis_tables, "targets_by_year_summary.csv",
                                    SummaryTable(frames'.targets))
          /\ console3' = console3 \o <<Msg("chart", "targets_by_year.png", 0),
                                       Msg("table", "targets_by_year_summary.csv", 0)>>
  /\ pc3' = "language"
  /\ UNCHANGED <<data_dir, report, stage1, stage2, outside>>

AnalyzeCommitmentLanguage ==
  /\ pc3 = "language"
  /\ IF frames.language = <<>>
     THEN /\ console3' = Append(console3, Msg("no data", "language", 0))
          /\ UNCHANGED <<frames, charts, analysis_tables>>
          /\ pc3' = "initiatives"
     ELSE IF NoNumericYear(WithYearNumeric(frames.language))
     THEN \* language_by_year_strength is empty: its plot() raises TypeError
          /\ frames' = [frames EXCEPT !.language = WithYearNumeric(@)]
          /\ console3' = Append(console3, Msg("traceback", "", 0))
          /\ pc3' = "crashed"
          /\ UNCHANGED <<charts, analysis_tables>>
     ELSE /\ frames' = [frames EXCEPT !.language = WithYearNumeric(@)]
          /\ charts' = charts \cup {"commitment_language_over_time.png"}
          /\ analysis_tables' =
               Put(Put(analysis_tables, "commitment_language_counts.csv", LanguageCounts(frames'.language)),
                   "commitment_language_percentages.csv", LanguagePercentages(frames'.language))
          /\ console3' = console3 \o <<Msg("chart", "commitment_language_over_time.png", 0),
                                       Msg("table", "commitment_language_counts.csv", 0),
                                       Msg("table", "commitment_language_percentages.csv", 0)>>
          /\ pc3' = "initiatives"
  /\ UNCHANGED <<data_dir, report, stage1, stage2, outside>>

\* a variant of AnalyzeInitiatives with a defect: the column is made on a copy of the table
AnalyzeInitiativesOnCopy ==
  /\ pc3 = "initiatives"
  /\ IF frames.initiatives = <<>>
     THEN /\ console3' = Append(console3, Msg("no data", "initiatives", 0))
          /\ UNCHANGED charts
     ELSE /\ charts' = charts \cup {"initiatives_over_time.png"}
          /\ console3' = Append(console3, Msg("chart", "initiatives_over_time.png", 0))
  /\ pc3' = "impact"
  /\ UNCHANGED <<data_dir, frames, analysis_tables, report, stage1, stage2, outside>>

AnalyzeInitiatives ==
  /\ pc3 = "initiatives"
  /\ IF frames.initiatives = <<>>
     THEN /\ console3' = Append(console3, Msg("no data", "initiatives", 0))
          /\ UNCHANGED <<frames, charts>>
     ELSE /\ frames' = [frames EXCEPT !.initiatives = WithYearNumeric(@)]
          /\ charts' = charts \cup {"initiatives_over_time.png"}
          /\ console3' = Append(console3, Msg("chart", "initiatives_over_time.png", 0))
  /\ pc3' = "impact"
  /\ UNCHANGED <<data_dir, analysis_tables, report, stage1, stage2, outside>>

AnalyzeImpactAreas ==
  /\ pc3 = "impact"
  /\ IF frames.impact_areas = <<>>
     THEN /\ console3' = Append(console3, Msg("no data", "impact_areas", 0))
          /\ UNCHANGED <<frames, charts, analysis_tables>>
          /\ pc3' = "dashboard"
     ELSE IF NoNumericYear(WithYearNumeric(frames.impact_areas))
     THEN \* impact_by_year is empty: the heatmap of it raises ValueError, and
          \* impact_by_year[area] raises KeyError
          /\ frames' = [frames EXCEPT !.impact_areas = WithYearNumeric(@)]
          /\ console3' = Append(console3, Msg("traceback", "", 0))
          /\ pc3' = "crashed"
          /\ UNCHANGED <<charts, analysis_tables>>
     ELSE /\ frames' = [frames EXCEPT !.impact_areas = WithYearNumeric(@)]
          /\ charts' = charts \cup {"impact_areas_heatmap.png", "top_impact_areas_trends.png"}
          /\ analysis_tables' = Put(analysis_tables, "impact_areas_by_year.csv",
                                    ImpactByYear(frames'.impact_areas))
          /\ console3' = console3 \o <<Msg("chart", "impact_areas_heatmap.png", 0),
                                       Msg("chart", "top_impact_areas_trends.png", 0),
                                       Msg("table", "impact_areas_by_year.csv", 0)>>
          /\ pc3' = "dashboard"
  /\ UNCHANGED <<data_dir, report, stage1, stage2, outside>>

\* a variant of HasYearNumeric with a defect: the column is read of an empty table too
YearNumericOfAny(rows) == rows # <<>> /\ "year_numeric" \in DOMAIN rows[1]

\* a table that is not empty is read through its year_numeric column
HasYearNumeric(rows) == rows = <<>> \/ "year_numeric" \in DOMAIN rows[1]

\* create_overall_dashboard: df['year_numeric'] raises KeyError when the column is missing
CreateOverallDashboard ==
  /\ pc3 = "dashboard"
  /\ IF HasYearNumeric(frames.targets) /\ HasYearNumeric(frames.initiatives)
     THEN /\ charts' = charts \cup {"comprehensive_dashboard.png"}
          /\ console3' = Append(console3, Msg("chart", "comprehensive_dashboard.png", 0))
          /\ pc3' = "report"
     ELSE /\ console3' = Append(console3, Msg("traceback", "", 0))
          /\ pc3' = "crashed"
          /\ UNCHANGED charts
  /\ UNCHANGED <<data_dir, frames, analysis_tables, report, stage1, stage2, outside>>

\* the lines of the report that depend on the tables
ReportOf(targets, language, initiatives, impact_areas) ==
  [exists               |-> TRUE,
   targets              |-> Len(targets),
   language             |-> Len(language),
   initiatives          |-> Len(initiatives),
   impact_areas         |-> Len(impact_areas),
   targets_by_year      |-> IF targets # <<>> THEN CountsByYear(targets) ELSE <<>>,
   language_by_strength |-> IF language # <<>> THEN CountBy(language, "commitment_strength") ELSE <<>>,
   impact_by_area       |-> IF impact_areas # <<>>
                            THEN SumBy(impact_areas, "impact_area", "occurrence_count") ELSE <<>>,
   targets_by_document  |-> IF targets # <<>> THEN CountBy(targets, "document") ELSE <<>>]

\* create_summary_report, then the closing messages of run_all_analyses
CreateSummaryReport ==
  /\ pc3 = "report"
  /\ IF HasYearNumeric(frames.targets)
     THEN /\ report' = ReportOf(frames.targets, frames.language, frames.initiatives, frames.impact_areas)
          /\ console3' = console3 \o <<Msg("report", "analysis_summary_report.txt", 0), Msg("complete", "", 0)>>
          /\ pc3' = "done"
     ELSE /\ report' = [exists |-> TRUE]
          /\ console3' = Append(console3, Msg("traceback", "", 0))
          /\ pc3' = "crashed"
  /\ UNCHANGED <<data_dir, frames, analysis_tables, charts, stage1, stage2, outside>>

RECURSIVE Copies(_, _)
\* [row] * n
Copies(row, n) == IF n = 0 THEN <<>> ELSE <<row>> \o Copies(row, n - 1)

\* a targets CSV with per_year[k] rows of year YearCells[k], the later cells first
TargetRows(per_year) ==
  Concat([k \in 1..Len(YearCells) |->
            Copies([year |-> YearCells[Len(YearCells) + 1 - k], document |-> "Other Report"],
                   per_year[Len(YearCells) + 1 - k])])

\* stage 2 writes a CSV only for a collection that is not empty
CsvOf(rows) == IF rows = <<>> THEN NoFile ELSE [exists |-> TRUE, rows |-> rows]

LanguageRows ==
  <<[year |-> "2022", commitment_strength |-> "Strong"],
    [year |-> "2023", commitment_strength |-> "Moderate"],
    [year |-> "2023", commitment_strength |-> "Strong"]>>

InitiativeRows == <<[year |-> "2023"]>>

ImpactRows ==
  <<[year |-> "2022", impact_area |-> "Water", occurrence_count |-> 2],
    [year |-> "2023", impact_area |-> "Energy", occurrence_count |-> 1],
    [year |-> "2023", impact_area |-> "Water", occurrence_count |-> 1]>>

\* the same tables with the year 'Unknown' in some rows, and in all rows
LanguageRowsSomeUnknown ==
  <<[year |-> "Unknown", commitment_strength |-> "Strong"],
    [year |-> "2023", commitment_strength |-> "Moderate"],
    [year |-> "Unknown", commitment_strength |-> "Weak/Hedging"]>>

LanguageRowsUnknown ==
  <<[year |-> "Unknown", commitment_strength |-> "Strong"],
    [year |-> "Unknown", commitment_strength |-> "Moderate"]>>

InitiativeRowsUnknown == <<[year |-> "Unknown"], [year |-> "Unknown"]>>

ImpactRowsSomeUnknown ==
  <<[year |-> "2022", impact_area |-> "Water", occurrence_count |-> 2],
    [year |-> "Unknown", impact_area |-> "Energy", occurrence_count |-> 1]>>

ImpactRowsUnknown == <<[year |-> "Unknown", impact_area |-> "Water", occurrence_count |-> 4]>>

\* the inputs of stage 3: a targets CSV that, if present, has a row with a numeric year,
\* and for each of the three other tables no CSV or one of the CSVs above
DataDirs ==
  {[targets      |-> CsvOf(TargetRows(per_year)),
    language     |-> language,
    initiatives  |-> initiatives,
    impact_areas |-> impact_areas] :
     per_year \in {p \in [1..Len(YearCells) -> 0..MaxPerYear] :
                     (\A k \in 1..Len(YearCells) : p[k] = 0)
                     \/ (\E k \in 1..Len(YearCells) : p[k] > 0 /\ IsNumeric(YearCells[k]))},
     language \in {NoFile, CsvOf(LanguageRows), CsvOf(LanguageRowsSomeUnknown), CsvOf(LanguageRowsUnknown)},
     initiatives \in {NoFile, CsvOf(InitiativeRows), CsvOf(InitiativeRowsUnknown)},
     impact_areas \in {NoFile, CsvOf(ImpactRows), CsvOf(ImpactRowsSomeUnknown), CsvOf(ImpactRowsUnknown)}}

Stage3Ready ==
  /\ data_dir \in DataDirs
  /\ frames = [t \in Tables |-> <<>>]
  /\ pc3 = "start"
  /\ analysis_tables = <<>>
  /\ charts = {}
  /\ report = NoReport
  /\ console3 = <<>>

\* 04_quantitative_analysis_visualization.py is run by hand; the data directory may be
\* absent, and then holds no file
InitStage3 ==
  /\ Stage1Idle /\ Stage2Idle /\ Stage3Ready /\ Stage0Idle /\ CallsIdle
  /\ running = 3
  /\ dirs \in SUBSET {DataDir}
  /\ DataDir \notin dirs => data_dir = NoCsv

Stage3Next ==
  \/ MainWithoutDataDir
  \/ LoadData
  \/ AnalyzeTargetsOverTime
  \/ AnalyzeCommitmentLanguage
  \/ AnalyzeInitiatives
  \/ AnalyzeImpactAreas
  \/ CreateOverallDashboard
  \/ CreateSummaryReport

SpecStage3 == InitStage3 /\ [][Stage3Next]_vars

(***************************************************************************)
(* Stage 2 with an exception inside an extraction pass.  The try block of  *)
(* process_all_text_files covers parse_text_file and the four passes, and  *)
(* `except Exception` catches whatever they raise (a MemoryError while a   *)
(* pass builds its matches on a large page, for one).  The passes append   *)
(* to the collections of the extractor as they go.                         *)
(***************************************************************************)
\* a pass raises before it appends a record of its own: the except clause prints the
\* error and the loop goes on; what earlier passes appended for the file stays
ExtractionRaises ==
  /\ pc \in {"targets", "language", "initiatives", "impact"}
  /\ console' = Append(console, Msg("error", text_files[idx], 0))
  /\ idx' = idx + 1
  /\ pc' = NextPc
  /\ UNCHANGED <<text_dir, text_files, rerun, targets_data, language_data, initiatives_data,
                 impact_areas_data, origin, csv, statistics, prev, stage1, stage3, outside>>

NextOrRaise == Next \/ ExtractionRaises

SpecRaise == Init /\ [][NextOrRaise]_vars

(***************************************************************************)
(* The three stage scripts, each run by hand on its own: one of them runs, *)
(* with its input directory present or absent.                             *)
(***************************************************************************)
InitStages == InitStage1 \/ Init \/ InitStage3

StagesNext == Stage1Next \/ Next \/ Stage3Next

SpecStages == InitStages /\ [][StagesNext]_vars

(***************************************************************************)
(* The orchestrator: MasterAnalysisRunner.  run_script starts a stage      *)
(* script as a process of its own and waits for its end; the stages then   *)
(* work on what the earlier stages left in the directories.  A process     *)
(* ends with return code 0 when main() returns and with 1 when an          *)
(* exception ends it.                                                      *)
(***************************************************************************)
\* the descriptions of self.scripts
Descriptions ==
  <<"PDF Text Extraction", "ESG Data Extraction", "Quantitative Analysis & Visualization">>

Event(script, what) == [script |-> script, what |-> what]

\* check_prerequisites, and the return of run_complete_analysis when it fails
CheckPrerequisites ==
  /\ pc0 = "start"
  /\ IF ~(ReportsDir \in dirs)
     THEN /\ console0' = <<Msg("directory not found", ReportsDir, 0), Msg("cannot proceed", "", 0)>>
          /\ pc0' = "stopped"
          /\ UNCHANGED step
     ELSE IF Cardinality(env.pdfs) = 0
     THEN /\ console0' = <<Msg("found", "", 0), Msg("no pdf", "", 0), Msg("cannot proceed", "", 0)>>
          /\ pc0' = "stopped"
          /\ UNCHANGED step
     ELSE /\ console0' = <<Msg("found", "", Cardinality(env.pdfs))>>
          /\ pc0' = "run"
          /\ step' = 1
  /\ UNCHANGED <<env, events, success_steps, failed_steps, execution_log, running, dirs,
                 stage1, stage2, stage3, calls>>

\* the loop over self.scripts after one script: the next script, or create_analysis_log
NextPc0 == IF step < Len(Scripts) THEN "run" ELSE "log"

\* a variant of NextStep with a defect: the loop goes on with the last script
LastStep == Len(Scripts)

NextStep == IF step < Len(Scripts) THEN step + 1 ELSE step

\* a variant of Verdict with a defect: a failed step is not put on the list
VerdictOfSuccess(success) ==
  /\ success_steps' = IF success THEN Append(success_steps, Descriptions[step]) ELSE success_steps
  /\ failed_steps' = failed_steps
  /\ step' = NextStep
  /\ pc0' = NextPc0

\* what the loop does with the verdict of run_script
Verdict(success) ==
  /\ success_steps' = IF success THEN Append(success_steps, Descriptions[step]) ELSE success_steps
  /\ failed_steps' = IF success THEN failed_steps ELSE Append(failed_steps, Descriptions[step])
  /\ step' = NextStep
  /\ pc0' = NextPc0

\* run_script finds no script file and returns False
ScriptNotFound ==
  /\ pc0 = "run"
  /\ running = 0
  /\ Scripts[step] \in env.missing
  /\ events' = Append(events, Event(Scripts[step], "not found"))
  /\ console0' = console0 \o <<Msg("step", Scripts[step], 0), Msg("script not found", Scripts[step], 0),
                               Msg("warning", Scripts[step], 0)>>
  /\ Verdict(FALSE)
  /\ UNCHANGED <<env, execution_log, running, dirs, stage1, stage2, stage3, calls>>

\* subprocess.run raises: run_script catches the exception and returns False
LaunchRaises ==
  /\ pc0 = "run"
  /\ running = 0
  /\ Scripts[step] \notin env.missing
  /\ Scripts[step] \in env.launch_fails
  /\ events' = Append(events, Event(Scripts[step], "launch failed"))
  /\ console0' = console0 \o <<Msg("step", Scripts[step], 0), Msg("error running", Scripts[step], 0),
                               Msg("warning", Scripts[step], 0)>>
  /\ Verdict(FALSE)
  /\ UNCHANGED <<env, execution_log, running, dirs, stage1, stage2, stage3, calls>>

\* subprocess.run starts the script; stage 3 reads the directory stage 2 writes to
StartProcess ==
  /\ pc0 = "run"
  /\ running = 0
  /\ Scripts[step] \notin env.missing
  /\ Scripts[step] \notin env.launch_fails
  /\ running' = step
  /\ events' = Append(events, Event(Scripts[step], "started"))
  /\ console0' = Append(console0, Msg("step", Scripts[step], 0))
  /\ data_dir' = IF step = 3 THEN csv ELSE data_dir
  /\ UNCHANGED <<env, pc0, step, success_steps, failed_steps, execution_log, dirs, stage1, stage2,
                 frames, pc3, analysis_tables, charts, report, console3, calls>>

\* where the script that runs stands
StagePc == CASE running = 1 -> pc1 [] running = 2 -> pc [] running = 3 -> pc3 [] OTHER -> "none"

\* a variant of ReturnCode with a defect: a main() that returns for want of its input
\* directory counts as an error exit
ReturnCodeOfAbort == IF StagePc \in {"crashed", "aborted"} THEN 1 ELSE 0

\* the return code of the process: 0 when main() returned, 1 after a traceback
ReturnCode == IF StagePc = "crashed" THEN 1 ELSE 0

\* the process has ended: run_script prints its output and the verdict and returns
ProcessEnds ==
  /\ pc0 = "run"
  /\ running # 0
  /\ StagePc \in {"done", "aborted", "crashed"}
  /\ running' = 0
  /\ events' = Append(events, Event(Scripts[step], "ended"))
  /\ console0' = console0 \o <<Msg("output", Scripts[step], ReturnCode)>>
                   \o (IF ReturnCode = 0 THEN <<Msg("completed", Scripts[step], 0)>>
                       ELSE <<Msg("failed", Scripts[step], ReturnCode), Msg("warning", Scripts[step], 0)>>)
  /\ Verdict(ReturnCode = 0)
  /\ UNCHANGED <<env, execution_log, dirs, stage1, stage2, stage3, calls>>

\* create_analysis_log, then the final summary of run_complete_analysis
CreateAnalysisLog ==
  /\ pc0 = "log"
  /\ execution_log' = [exists |-> TRUE, completed |-> success_steps, failed |-> failed_steps]
  /\ console0' = console0 \o <<Msg("log saved", "analysis_execution_log.txt", 0),
                               Msg("complete", "", Len(success_steps))>>
  /\ pc0' = "done"
  /\ UNCHANGED <<env, step, events, success_steps, failed_steps, running, dirs,
                 stage1, stage2, stage3, calls>>

\* what a script is: present, missing, or not startable
ScriptStates == {s \in [missing : SUBSET Range(Scripts), launch_fails : SUBSET Range(Scripts)] :
                   s.missing \cap s.launch_fails = {}}

\* the PDFs the orchestrator is run on: none, one or two that are fine, two of which one cannot be
\* opened or cannot be written for, or two of years that the summary cannot sort
PdfStates ==
  {[pdfs |-> {}, cannot_open |-> {}, cannot_write |-> {}],
   [pdfs |-> {pdfPledge}, cannot_open |-> {}, cannot_write |-> {}],
   [pdfs |-> {pdfPledge, pdfGCS}, cannot_open |-> {}, cannot_write |-> {}],
   [pdfs |-> {pdfPledge, pdfGCS}, cannot_open |-> {pdfGCS}, cannot_write |-> {}],
   [pdfs |-> {pdfPledge, pdfGCS}, cannot_open |-> {}, cannot_write |-> {pdfPledge}],
   [pdfs |-> {pdf10K, pdfCover}, cannot_open |-> {}, cannot_write |-> {}]}

Envs ==
  {[pdfs |-> p.pdfs, cannot_open |-> p.cannot_open, cannot_write |-> p.cannot_write,
    strays |-> strays, missing |-> s.missing, launch_fails |-> s.launch_fails] :
     p \in PdfStates, s \in ScriptStates, strays \in SUBSET {BrokenFile}}

\* the orchestrator is started, in a directory that may hold results of an earlier use
InitPipeline ==
  /\ Stage1Idle /\ Stage2Idle /\ Stage3Idle /\ CallsIdle
  /\ running = 0
  /\ pc0 = "start"
  /\ step = 0
  /\ events = <<>>
  /\ success_steps = <<>>
  /\ failed_steps = <<>>
  /\ execution_log = NoExecutionLog
  /\ console0 = <<>>
  /\ env \in Envs
  /\ dirs \in SUBSET {ReportsDir, TextDir, DataDir}
  /\ env.pdfs # {} => ReportsDir \in dirs
  /\ env.strays # {} => TextDir \in dirs

\* the text files stage 2 finds: what stage 1 wrote, and what lay there before
TextFilesFound == DOMAIN text_output \cup env.strays

\* a step of the orchestrator, or a step of the stage whose process runs; stage 1 is not
\* started without its input directory, which check_prerequisites has seen
PipelineNext ==
  \/ CheckPrerequisites
  \/ ScriptNotFound
  \/ LaunchRaises
  \/ StartProcess
  \/ ProcessEnds
  \/ CreateAnalysisLog
  \/ \E listing \in Listings(env.pdfs) : FindPdfs(listing, env.cannot_open, env.cannot_write)
  \/ ExtractText
  \/ ExtractTextFails
  \/ SaveText
  \/ SaveTextRaises
  \/ SaveExtractionLog
  \/ SaveExtractionLogRaises
  \/ MainWithoutTextDir
  \/ \E listing \in Listings(TextFilesFound) : pc = "start" /\ StartRun(TextFilesFound, listing)
  \/ ParseFile
  \/ ParseFileFails
  \/ ExtractTargets
  \/ ExtractLanguage
  \/ ExtractInitiatives
  \/ ExtractImpactAreas
  \/ SaveAllData
  \/ MainWithoutDataDir
  \/ LoadData
  \/ AnalyzeTargetsOverTime
  \/ AnalyzeCommitmentLanguage
  \/ AnalyzeInitiatives
  \/ AnalyzeImpactAreas
  \/ CreateOverallDashboard
  \/ CreateSummaryReport

SpecPipeline == InitPipeline /\ [][PipelineNext]_vars

(***************************************************************************)
(* The path functions of stage 1, called on paths put together from the    *)
(* words the functions look for and some they do not look for.             *)
(***************************************************************************)
MaxWords == 2

NameWords ==
  {"Citizenship", "GCS", "sustainability", "10K", "10-K", "CDP", "Climate", "Water", "Forest",
   "Carbon Footprint", "Verification", "Assurance", "Report", "2021", "2026", "FY2024"}

RECURSIVE NamesOfWords(_)
\* the names of n words
NamesOfWords(n) ==
  IF n = 1 THEN NameWords ELSE {a \o " " \o b : a \in NameWords, b \in NamesOfWords(n - 1)}

SampleDirs ==
  {"extracted_reports", "extracted_reports/2022", "extracted_reports/2019",
   "extracted_reports/2025/cdp 2023"}

SamplePaths ==
  {[dir |-> d, name |-> n \o ".pdf"] : d \in SampleDirs, n \in NamesOfWords(MaxWords)}

InitPaths ==
  /\ Stage1Idle /\ Stage2Idle /\ Stage3Idle /\ Stage0Idle
  /\ running = 0
  /\ dirs = {}
  /\ pdf_path \in SamplePaths
  /\ doc_type = <<>>
  /\ year_found = <<>>
  /\ written_text = <<>>
  /\ parse_result = <<>>

\* doc_type = self.categorize_document(pdf_path.name)
CallCategorizeDocument ==
  /\ doc_type = <<>>
  /\ doc_type' = <<CategorizeDocument(pdf_path.name)>>
  /\ UNCHANGED <<pdf_path, year_found, written_text, parse_result, stage1, stage2, stage3, dirs, running, stage0>>

\* year = self.extract_year_from_path(pdf_path)
CallExtractYearFromPath ==
  /\ year_found = <<>>
  /\ year_found' = <<ExtractYearFromPath(pdf_path)>>
  /\ UNCHANGED <<pdf_path, doc_type, written_text, parse_result, stage1, stage2, stage3, dirs, running, stage0>>

PathsNext == CallCategorizeDocument \/ CallExtractYearFromPath

SpecPaths == InitPaths /\ [][PathsNext]_vars

(***************************************************************************)
(* save_extracted_text of stage 1 and parse_text_file of stage 2, called   *)
(* one after the other on documents of up to MaxPages pages.               *)
(***************************************************************************)
MaxPages == 2

\* page texts: plain, with a line of 80 "=" and newlines around it, with a whole page marker
SampleTexts ==
  {"We plan to cut waste.\n",
   "\nNet zero goal\n" \o Repeat("=", MarkerWidth) \o "\nTotal 5\n\n",
   "See" \o PageMarker(7, 9) \o "there."}

RECURSIVE PageLists(_)
\* the documents of n pages
PageLists(n) ==
  IF n = 0 THEN {<<>>} ELSE {Append(l, t) : l \in PageLists(n - 1), t \in SampleTexts}

SampleStems ==
  {"GCS Report", "10K Filing", "Cover Letter", "CDP & Water", " GCS Report",
   "Fiscal Year: 2023 Review"}

SampleDocuments ==
  {[dir |-> d, name |-> n \o ".pdf", stem |-> n, pages |-> l] :
     d \in {"extracted_reports/2021", "extracted_reports/misc"}, n \in SampleStems,
     l \in UNION {PageLists(k) : k \in 1..MaxPages}}

InitRoundTrip ==
  /\ Stage1Idle /\ Stage2Idle /\ Stage3Idle /\ Stage0Idle
  /\ running = 0
  /\ dirs = {}
  /\ pdf_path \in SampleDocuments
  /\ doc_type = <<>>
  /\ year_found = <<>>
  /\ written_text = <<>>
  /\ parse_result = <<>>

\* self.save_extracted_text(text_by_page, pdf_path, year, doc_type)
CallSaveExtractedText ==
  /\ doc_type # <<>> /\ year_found # <<>>
  /\ written_text = <<>>
  /\ written_text' = <<SaveExtractedText(ExtractWithPymupdf(pdf_path), pdf_path, year_found[1], doc_type[1])>>
  /\ UNCHANGED <<pdf_path, doc_type, year_found, parse_result, stage1, stage2, stage3, dirs, running, stage0>>

\* metadata, pages = self.parse_text_file(txt_file)
CallParseTextFile ==
  /\ written_text # <<>>
  /\ parse_result = <<>>
  /\ parse_result' = <<parse_text_file(written_text[1])>>
  /\ UNCHANGED <<pdf_path, doc_type, year_found, written_text, stage1, stage2, stage3, dirs, running, stage0>>

RoundTripNext ==
  CallCategorizeDocument \/ CallExtractYearFromPath \/ CallSaveExtractedText \/ CallParseTextFile

SpecRoundTrip == InitRoundTrip /\ [][RoundTripNext]_vars

(***************************************************************************)
(* Properties of stage 2 (specification Spec).  A property of the records  *)
(* of a file that is costly to evaluate is tabulated once per file.        *)
(***************************************************************************)
\* the four collections, by table
Collections ==
  [targets      |-> targets_data,
   language     |-> language_data,
   initiatives  |-> initiatives_data,
   impact_areas |-> impact_areas_data]

\* P(t, r, f) holds for every record r of every collection t, f being the file it was
\* appended for
EveryRecord(P(_, _, _)) ==
  \A t \in Tables : \A i \in 1..Len(Collections[t]) : P(t, Collections[t][i], origin[t][i])

\* the records of collection t that were appended for file f
RecordsFrom(t, f) ==
  Map(LAMBDA i : Collections[t][i],
      SelectSeq(Idx(Len(Collections[t])), LAMBDA i : origin[t][i] = f))

\* the readable files the loop of this run is through with
CompletedFiles == {text_files[k] : k \in 1..(idx - 1)} \cap ReadableNames

\* the text a record says it matched
MatchedText(t, r) ==
  CASE t = "targets"      -> r.keyword_matched
    [] t = "language"     -> r.phrase
    [] t = "initiatives"  -> r.keyword_matched
    [] t = "impact_areas" -> r.keyword

\* the context a record stores
ContextOf(t, r) ==
  CASE t = "targets"      -> r.target_text
    [] t = "language"     -> r.context
    [] t = "initiatives"  -> r.initiative_text
    [] t = "impact_areas" -> r.example_context

\* record r of table t has the year and the document type of the header of file f, and
\* the number of a parsed page of f whose text holds what r matched
Traceable(f, t, r) ==
  /\ r.year = Get(ParseOf[f].metadata, "year", "Unknown")
  /\ r.document = Get(ParseOf[f].metadata, "document_type", "Unknown")
  /\ \E k \in 1..Len(ParseOf[f].pages) :
       /\ ParseOf[f].pages[k].page_number = r.page_number
       /\ Contains(Lower(ParseOf[f].pages[k].text), Lower(MatchedText(t, r)))

TraceableRecords ==
  [f \in ReadableNames |-> [t \in Tables |-> {r \in Range(ExtractedOf[f][t]) : Traceable(f, t, r)}]]

\* C1: every record of each of the four collections has the page number of the parsed
\* page its match was found on, and the year and the document type parsed from the header
\* of the text file that page belongs to, whatever other files the run processes.
C1_Provenance == EveryRecord(LAMBDA t, r, f : r \in TraceableRecords[f][t])

\* a completed run over two files of different years, each of which gave records to all
\* four collections, some of them from a second page
C1_TwoFilesTraced ==
  /\ pc = "done"
  /\ \A t \in Tables : Cardinality(Range(origin[t])) = 2
  /\ \E i \in 1..Len(targets_data) : targets_data[i].page_number = 2
  /\ \E i \in 1..Len(targets_data) : targets_data[i].year # targets_data[1].year

\* C2 as stated: every record of every type carries year, document type, source file and
\* page number, so that records of different source documents can be told apart.
C2_FullProvenanceOnEveryRecord ==
  /\ EveryRecord(LAMBDA t, r, f : {"year", "document", "source_file", "page_number"} \subseteq DOMAIN r)
  /\ \A t \in Tables : \A i \in 1..Len(Collections[t]) : \A j \in 1..Len(Collections[t]) :
       origin[t][i] # origin[t][j] => Collections[t][i] # Collections[t][j]

\* C2: every record carries year, document type and page number; a target record also
\* carries the source file named in the header of its text file; a language, initiative
\* or impact-area record carries no source file.
C2_ProvenanceFields ==
  EveryRecord(LAMBDA t, r, f :
    /\ {"year", "document", "page_number"} \subseteq DOMAIN r
    /\ ("source_file" \in DOMAIN r) <=> (t = "targets")
    /\ t = "targets" => r.source_file = Get(ParseOf[f].metadata, "source_file", "Unknown"))

\* two documents of one year and one document type gave the same language record: nothing
\* in the record tells which document it came from
C2_SameRecordFromTwoDocuments ==
  /\ targets_data # <<>>
  /\ \E i \in 1..Len(language_data) : \E j \in 1..Len(language_data) :
       origin.language[i] # origin.language[j] /\ language_data[i] = language_data[j]

\* the caps the data model states for the context of each record type
ClaimedCap == [targets |-> 300, language |-> 250, initiatives |-> 300, impact_areas |-> 200]

\* C3: no stored context exceeds its cap: 300 characters for target text and initiative
\* text, 250 for a language context, 200 for an impact-area example context.
C3_ContextCaps == EveryRecord(LAMBDA t, r, f : Len(ContextOf(t, r)) <= ClaimedCap[t])

\* a completed run in which every collection holds a context cut at exactly its cap
C3_ContextsCutAtCap ==
  /\ pc = "done"
  /\ \A t \in Tables :
       \E i \in 1..Len(Collections[t]) : Len(ContextOf(t, Collections[t][i])) = ClaimedCap[t]

\* a [PAGE n OF total] marker
MarkerText == <<Lit("[PAGE "), Plus("d"), Lit(" OF "), Plus("d"), Lit("]")>>

\* s holds a piece of the page delimiter: 80 '=' in a row, or a [PAGE n OF total] marker
HasDelimiter(s) == Contains(s, Repeat("=", 80)) \/ Finditer(MarkerText, s) # <<>>

\* the text of a page as the pass of table t reads it
AsRead(t, text) == IF t = "impact_areas" THEN Lower(text) ELSE text

\* the context of record r is a piece of the text, with its whitespace collapsed, of the
\* page of the PDF that r names, and holds a piece of the delimiter only if that page does
InsidePage(f, t, r) ==
  /\ r.page_number \in 1..Len(FileOf[f].pdf.pages)
  /\ Contains(Collapse(AsRead(t, FileOf[f].pdf.pages[r.page_number])), ContextOf(t, r))
  /\ HasDelimiter(ContextOf(t, r)) => HasDelimiter(FileOf[f].pdf.pages[r.page_number])

RecordsInsidePage ==
  [f \in ReadableNames |-> [t \in Tables |-> {r \in Range(ExtractedOf[f][t]) : InsidePage(f, t, r)}]]

OccurrencesAt(text, kw) ==
  SelectSeq(Idx(Len(text) - Len(kw) + 1), LAMBDA i : SubSeq(text, i, i + Len(kw) - 1) = kw)

RECURSIVE NonOverlapping(_, _, _, _)
\* of the positions ps[k], ps[k + 1], ..., those a scan from left to right counts: an
\* occurrence that overlaps the one counted before it is passed over, as str.count does
NonOverlapping(ps, k, from, width) ==
  IF k > Len(ps) THEN <<>>
  ELSE IF ps[k] >= from
       THEN <<ps[k]>> \o NonOverlapping(ps, k + 1, ps[k] + width, width)
       ELSE NonOverlapping(ps, k + 1, from, width)

Occurrences(text, kw) == NonOverlapping(OccurrencesAt(text, kw), 1, 1, Len(kw))

\* up to 100 characters on either side of the occurrence of kw at position at, whitespace
\* collapsed, cut at 200 characters
ExampleAround(text, kw, at) ==
  Slice(Collapse(SubSeq(text, Max2(1, at - 100), Min2(Len(text), at + Len(kw) - 1 + 100))), 0, 200)

\* what C5 lets a keyword with the occurrences occ on a page put into its record
ImpactFacts(page, area, kw, occ) ==
  [page_number      |-> page.page_number,
   impact_area      |-> area,
   keyword          |-> kw,
   occurrence_count |-> Len(occ),
   example_context  |-> ExampleAround(Lower(page.text), Lower(kw), occ[1])]

\* the (page, impact area, keyword) triples of a list of pages
Triples(pages) ==
  UNION {UNION {{<<k, a, j>> : j \in 1..Len(impact_keywords[a].keywords)} :
                  a \in 1..Len(impact_keywords)} : k \in 1..Len(pages)}

\* the facts of the triples whose keyword occurs on the page
ExpectedOf(pages) ==
  {ImpactFacts(pages[x[1]], impact_keywords[x[2]].area, impact_keywords[x[2]].keywords[x[3]],
               Occurrences(Lower(pages[x[1]].text), Lower(impact_keywords[x[2]].keywords[x[3]]))) :
     x \in {y \in Triples(pages) :
              OccurrencesAt(Lower(pages[y[1]].text), Lower(impact_keywords[y[2]].keywords[y[3]])) # <<>>}}

ExpectedImpact == [f \in ReadableNames |-> ExpectedOf(ParseOf[f].pages)]

\* the same five fields of an impact-area record
FactsOf(r) ==
  [page_number      |-> r.page_number,
   impact_area      |-> r.impact_area,
   keyword          |-> r.keyword,
   occurrence_count |-> r.occurrence_count,
   example_context  |-> r.example_context]

\* the impact-area records of a file are one for each expected fact, and no more
OnePerTriple(records, expected) ==
  /\ Len(records) = Cardinality(expected)
  /\ {FactsOf(records[i]) : i \in 1..Len(records)} = expected

\* C5: for every page of a processed file, every impact area and every keyword of it,
\* there is exactly one impact-area record if the keyword occurs in the lower-cased page
\* text and none otherwise; its occurrence_count is the number of occurrences on the page
\* (counted from left to right without overlap, so at least 1) and its example context is
\* the window around the first of them; no two records of a file share a triple.
C5_OneRecordPerTriple ==
  \A f \in CompletedFiles : OnePerTriple(RecordsFrom("impact_areas", f), ExpectedImpact[f])

\* a completed run over a file with a keyword that occurs twice on a page, next to one
\* that overlaps itself, and a file of two pages without any keyword
C5_CountedTwice ==
  /\ pc = "done"
  /\ Cardinality(CompletedFiles) = 2
  /\ \E f \in CompletedFiles : ExpectedImpact[f] = {} /\ Len(ParseOf[f].pages) = 2
  /\ \E i \in 1..Len(impact_areas_data) :
       impact_areas_data[i].keyword = "reuse" /\ impact_areas_data[i].occurrence_count = 2
  /\ \E i \in 1..Len(impact_areas_data) :
       impact_areas_data[i].keyword = "GHG" /\ impact_areas_data[i].occurrence_count = 1

\* C6: a second run of stage 2 over the same set of text files leaves in each of the four
\* CSV files the rows of the first run, in the same order, whatever the order in which
\* the directory listing returned the files in either run.
C6_Idempotent == (rerun /\ pc = "done" /\ text_dir = prev.dir) => csv = prev.csv

\* a second run over the same two files has ended, and each CSV file holds rows of both
C6_SecondRunDone ==
  /\ rerun
  /\ pc = "done"
  /\ text_dir = prev.dir
  /\ \A t \in Tables : csv[t].exists /\ Cardinality(Range(origin[t])) = 2

\* the document of the scenario of C8, as stage 1 writes it
PledgeFile == Stage1Output(pdfPledge).name

PledgeText == "We are committed to achieving net zero by 2040, a 50% reduction from 2020 levels"

\* the records the scenario asks for are among the target and language records given
PledgeYields(targets, language) ==
  /\ \E i \in 1..Len(targets) : targets[i].keyword_matched = "net zero"
  /\ \A i \in 1..Len(targets) :
       /\ Contains(targets[i].target_years, "2040")
       /\ Contains(targets[i].target_years, "2020")
       /\ Contains(targets[i].percentages, "50")
  /\ \E i \in 1..Len(language) :
       language[i].commitment_strength = "Strong" /\ language[i].phrase = "committed to"

\* C8: the document whose single page reads PledgeText yields a target record matched on
\* "net zero", target records whose target_years hold "2040" and "2020" and whose
\* percentages hold "50", and a language record of strength Strong for "committed to".
C8_PledgeScenario ==
  PledgeFile \in CompletedFiles =>
    PledgeYields(RecordsFrom("targets", PledgeFile), RecordsFrom("language", PledgeFile))

\* a completed run over that document alone, parsed as one page with that text
C8_PledgeProcessed ==
  /\ pc = "done"
  /\ text_dir = {PledgeFile}
  /\ Len(ParseOf[PledgeFile].pages) = 1
  /\ Strip(ParseOf[PledgeFile].pages[1].text) = PledgeText
  /\ Len(targets_data) >= 1
  /\ Len(language_data) >= 1

\* C9 as stated: a completed run over readable text files in which no page matches any
\* pattern leaves each of the four output tables with zero rows and a statistics file
\* whose four totals are 0.
C9_NoMatchNoRows ==
  (/\ pc = "done"
   /\ text_files # <<>>
   /\ \A k \in 1..Len(text_files) : Readable(text_files[k])
   /\ \A t \in Tables : Collections[t] = <<>>)
  => /\ \A t \in Tables : csv[t].rows = <<>>
     /\ statistics.exists
     /\ \A t \in Tables : statistics[t] = 0

(***************************************************************************)
(* Properties of stage 1 (specification SpecStage1).                       *)
(***************************************************************************)
\* processing the PDF fails: it cannot be opened, or its text file cannot be written
Fails(pdf) == pdf \in unreadable \/ pdf.pages = <<>> \/ pdf \in unwritable

\* the console reports the failure of the PDF
Reported(pdf) ==
  \E j \in 1..Len(console1) :
    console1[j].file = pdf.name /\ console1[j].kind \in {"extraction failed", "traceback"}

\* the loop took up the PDF
TakenUp(pdf) == \E j \in 1..Len(console1) : console1[j] = Msg("processing", pdf.name, 0)

\* C10 as stated, for stage 1: when a run in which the processing of a PDF failed has
\* ended, the failure was caught and reported, every PDF of the batch was taken up, and
\* the log and the summary of the run are written.
C10_FailureDoesNotAbort ==
  (/\ pc1 \in {"done", "crashed"}
   /\ \E k \in 1..Len(pdf_files) : Fails(pdf_files[k]))
  => /\ pc1 = "done"
     /\ \A k \in 1..Len(pdf_files) : TakenUp(pdf_files[k])
     /\ \A k \in 1..Len(pdf_files) : Fails(pdf_files[k]) => Reported(pdf_files[k])
     /\ log_file.exists
     /\ summary_file.exists /\ summary_file.complete

(***************************************************************************)
(* Properties of stage 3 (specification SpecStage3).                       *)
(***************************************************************************)
SummaryName == "targets_by_year_summary.csv"

\* the number of rows of the targets CSV whose year cell reads as the number year
MentionsOf(year) ==
  Cardinality({i \in 1..Len(data_dir.targets.rows) : data_dir.targets.rows[i].year = ToString(year)})

\* row k of the table follows from the row before it
FollowsPrevious(table, k) ==
  /\ table[k - 1].Year < table[k].Year
  /\ table[k].YoY_Change = <<table[k].Target_Mentions - table[k - 1].Target_Mentions>>
  /\ Len(table[k].YoY_Pct_Change) = 1
  /\ table[k].YoY_Pct_Change[1].den # 0
  /\ table[k].YoY_Pct_Change[1].num * table[k - 1].Target_Mentions
       = (table[k].Target_Mentions - table[k - 1].Target_Mentions) * 100 * table[k].YoY_Pct_Change[1].den

\* the table of the scenario: three rows of 2022 and three rows of 2023, nothing else
EqualCounts(table) ==
  /\ Len(table) = 2
  /\ table[1].Year = 2022 /\ table[1].Target_Mentions = 3
  /\ table[2].Year = 2023 /\ table[2].Target_Mentions = 3

SummaryHolds(table) ==
  /\ table # <<>>
  /\ \A k \in 1..Len(table) : table[k].Target_Mentions = MentionsOf(table[k].Year)
  /\ \A year \in 2020..2025 : MentionsOf(year) > 0 => \E k \in 1..Len(table) : table[k].Year = year
  /\ table[1].YoY_Change = <<>> /\ table[1].YoY_Pct_Change = <<>>
  /\ \A k \in 2..Len(table) : FollowsPrevious(table, k)
  /\ EqualCounts(table) =>
       table[2].YoY_Change = <<0>> /\ table[2].YoY_Pct_Change[1].num = 0

\* C7: the rows of targets_by_year_summary.csv are in ascending order of the year; each
\* row holds the number of target rows of its year; in the first row YoY Change and
\* YoY % Change are missing, in every later row they are the count minus the count of
\* the row before, and that difference divided by the count of the row before, times 100
\* (as exact quotients; the rounding of floating point is not represented); with three
\* target rows for 2022 and three for 2023 the row of 2023 has 0 and 0.
C7_YearOverYear ==
  SummaryName \in DOMAIN analysis_tables => SummaryHolds(analysis_tables[SummaryName])

\* the table of the scenario was written, from a CSV whose rows are not in order of year
C7_EqualCountsWritten ==
  /\ SummaryName \in DOMAIN analysis_tables
  /\ EqualCounts(analysis_tables[SummaryName])
  /\ analysis_tables[SummaryName][2].YoY_Change = <<0>>
  /\ data_dir.targets.rows[1].year = "2023"

(***************************************************************************)
(* Properties of stage 2 when a pass may raise (specification SpecRaise).  *)
(***************************************************************************)
\* the processing of the file failed in this run: the except clause reported it
FailedFile(f) == \E j \in 1..Len(console) : console[j] = Msg("error", f, 0)

\* C11 as stated: no collection holds a record appended for a text file whose processing
\* failed, during parsing or during a pass, and no CSV written by the run holds such a row.
C11_NoRecordOfFailedFile ==
  /\ EveryRecord(LAMBDA t, r, f : ~FailedFile(f))
  /\ (pc = "done" /\ ~rerun) =>
       \A t \in Tables : \A i \in 1..Len(csv[t].rows) : ~FailedFile(origin[t][i])

\* C16 as stated: after a completed run over some text files, each of the four CSV files
\* exists and holds exactly the rows collected in that run, also when the run followed
\* an earlier run into the same output directory.
C16_EachRunWritesItsRows ==
  (pc = "done" /\ text_files # <<>>) =>
    \A t \in Tables : csv[t].exists /\ csv[t].rows = Collections[t]

(***************************************************************************)
(* Properties of stage 3 with missing input (specification SpecStage3).    *)
(***************************************************************************)
\* the CSV file of the table is not in the data directory
Missing(t) == ~data_dir[t].exists

\* the charts and the tables the analysis of a table writes
ChartsOf(t) ==
  CASE t = "targets"      -> {"targets_by_year.png"}
    [] t = "language"     -> {"commitment_language_over_time.png"}
    [] t = "initiatives"  -> {"initiatives_over_time.png"}
    [] t = "impact_areas" -> {"impact_areas_heatmap.png", "top_impact_areas_trends.png"}

TablesOf(t) ==
  CASE t = "targets"      -> {"targets_by_year_summary.csv"}
    [] t = "language"     -> {"commitment_language_counts.csv", "commitment_language_percentages.csv"}
    [] t = "initiatives"  -> {}
    [] t = "impact_areas" -> {"impact_areas_by_year.csv"}

Printed3(msg) == \E j \in 1..Len(console3) : console3[j] = msg

\* the analysis of the table was skipped with a message and wrote nothing
Skipped(t) ==
  /\ Printed3(Msg("no data", t, 0))
  /\ ChartsOf(t) \cap charts = {}
  /\ TablesOf(t) \cap DOMAIN analysis_tables = {}

\* the analysis of the table ran and wrote its charts and tables
Analyzed(t) ==
  /\ ~Printed3(Msg("no data", t, 0))
  /\ ChartsOf(t) \subseteq charts
  /\ TablesOf(t) \subseteq DOMAIN analysis_tables

\* the table is missing, or a row of it has a numeric year
YearsKnown(t) ==
  Missing(t) \/ \E i \in 1..Len(data_dir[t].rows) : IsNumeric(data_dir[t].rows[i].year)

Stage1Untouched ==
  /\ pdf_files = <<>> /\ extraction_log = <<>>
  /\ text_output = <<>> /\ metadata_output = {}
  /\ ~log_file.exists /\ ~summary_file.exists

\* stage 2 processed no text file and wrote no file
Stage2Untouched ==
  /\ text_files = <<>>
  /\ \A t \in Tables : Collections[t] = <<>> /\ ~csv[t].exists
  /\ ~statistics.exists

\* stage 3 loaded no table and wrote no file
Stage3Untouched ==
  /\ \A t \in Tables : frames[t] = <<>>
  /\ analysis_tables = <<>> /\ charts = {}
  /\ ~report.exists

\* C15: when the input directory of a stage is absent, the first step of the stage is its
\* last: it has printed the error and nothing else, it has returned, it has processed no
\* file, and neither its output directory nor any output file exists.
C15_AbortWithoutInput ==
  /\ (running = 1 /\ ReportsDir \notin dirs /\ pc1 # "start") =>
       /\ pc1 = "aborted"
       /\ console1 = <<Msg("directory not found", ReportsDir, 0)>>
       /\ TextDir \notin dirs
       /\ Stage1Untouched
  /\ (running = 2 /\ TextDir \notin dirs /\ pc # "start") =>
       /\ pc = "aborted"
       /\ console = <<Msg("directory not found", TextDir, 0)>>
       /\ DataDir \notin dirs
       /\ Stage2Untouched
  /\ (running = 3 /\ DataDir \notin dirs /\ pc3 # "start") =>
       /\ pc3 = "aborted"
       /\ console3 = <<Msg("directory not found", DataDir, 0)>>
       /\ {AnalysisDir, ChartsDir, TablesDir} \cap dirs = {}
       /\ Stage3Untouched

\* stage 1 was run without its input directory and has returned
C15_Stage1Returned ==
  /\ running = 1
  /\ ReportsDir \notin dirs
  /\ pc1 = "aborted"
  /\ console1 # <<>>

(***************************************************************************)
(* Properties of the orchestrator (specification SpecPipeline).            *)
(***************************************************************************)
\* the events of the given kinds, in order
EventsOf(kinds) == SelectSeq(events, LAMBDA e : e.what \in kinds)

\* the scripts run_script was called for, and the scripts started as a process, in order
Attempted == Column(EventsOf({"started", "not found", "launch failed"}), "script")

Started == Column(EventsOf({"started"}), "script")

IsPrefix(a, b) == Len(a) <= Len(b) /\ a = SubSeq(b, 1, Len(a))

\* the loop over the scripts is through
LoopDone == pc0 \in {"log", "done"}

\* no process is started before the process started before it has ended
OneAtATime ==
  /\ \A i \in 1..(Len(events) - 1) :
       events[i].what = "started" => events[i + 1] = Event(events[i].script, "ended")
  /\ \A i \in 1..Len(events) :
       events[i].what = "ended" => i > 1 /\ events[i - 1] = Event(events[i].script, "started")
  /\ running # 0 <=> (events # <<>> /\ events[Len(events)].what = "started")
  /\ \A k \in 1..3 : running # k =>
       (CASE k = 1 -> pc1 [] k = 2 -> pc [] k = 3 -> pc3) \in {"start", "done", "aborted", "crashed"}

\* C13 as stated: once the prerequisites have passed, each of the three stage scripts is
\* started as a process exactly once, in the fixed order, one after the other has ended,
\* whatever the earlier stages ended with, and none is started again.
C13_EachScriptStartedOnce ==
  /\ IsPrefix(Started, Scripts)
  /\ LoopDone => Started = Scripts
  /\ OneAtATime

\* C13: once the prerequisites have passed, run_script is called exactly once for each of
\* the three stages, in the fixed order, whatever the earlier stages ended with; it starts
\* the process of a script exactly when the script file exists and subprocess.run does not
\* raise, and never twice; a missing script and a failed launch are counted as failed
\* without a process; no process is started before the one before it has ended, and no
\* stage is taken up again.
C13_EachStageTakenUpOnce ==
  /\ IsPrefix(Attempted, Scripts)
  /\ LoopDone => Attempted = Scripts
  /\ Len(Attempted) = Len(success_steps) + Len(failed_steps) + (IF running # 0 THEN 1 ELSE 0)
  /\ \A i \in 1..Len(events) :
       /\ events[i].what = "started" => events[i].script \notin env.missing \cup env.launch_fails
       /\ events[i].what = "not found" => events[i].script \in env.missing
       /\ events[i].what = "launch failed" => events[i].script \in env.launch_fails
  /\ LoopDone => Range(Started) = Range(Scripts) \ (env.missing \cup env.launch_fails)
  /\ OneAtATime
  /\ ~rerun

\* the run is through: stage 1 ended with a traceback, stage 2 and stage 3 were started
\* after it and have ended
C13_WentOnAfterFailure ==
  /\ pc0 = "done"
  /\ Started = Scripts
  /\ pc1 = "crashed"
  /\ failed_steps = <<Descriptions[1]>>
  /\ success_steps = <<Descriptions[2], Descriptions[3]>>

\* the log lists each of the three stages once, as completed or as failed
ListsEachStageOnce(file) ==
  /\ file.exists
  /\ Len(file.completed) + Len(file.failed) = Len(Descriptions)
  /\ Range(file.completed) \cup Range(file.failed) = Range(Descriptions)
  /\ Range(file.completed) \cap Range(file.failed) = {}

\* C14 as stated: every run of the orchestrator that has ended has written
\* analysis_execution_log.txt, with each of the three stages listed once.
C14_EveryRunWritesLog ==
  pc0 \in {"done", "stopped"} => ListsEachStageOnce(execution_log)

\* C14: a run whose prerequisites pass ends by writing analysis_execution_log.txt, after
\* the last stage, with each of the three stages listed exactly once, as completed or as
\* failed; a run whose prerequisites fail (no extracted_reports directory, or no PDF in it)
\* returns at once: it runs no stage and writes no log.
C14_LogAfterPrerequisites ==
  /\ pc0 = "done" => ListsEachStageOnce(execution_log)
  /\ pc0 # "done" => ~execution_log.exists
  /\ pc0 = "stopped" => events = <<>> /\ (ReportsDir \notin dirs \/ env.pdfs = {})
  /\ pc0 \in {"run", "log", "done"} => ReportsDir \in dirs /\ env.pdfs # {}

\* the log of a run is written with a stage on each list
C14_LogWithBothLists ==
  /\ pc0 = "done"
  /\ execution_log.exists
  /\ execution_log.completed # <<>>
  /\ execution_log.failed # <<>>

(***************************************************************************)
(* Properties of the language pass of stage 2 (specification Spec).        *)
(***************************************************************************)
\* the number of places of the text, compared in lower case, at which the phrase stands
OccurrencesIn(text, phrase) ==
  LET low == Lower(text)
  IN  Cardinality({i \in 1..Len(low) :
                     /\ i + Len(phrase) - 1 <= Len(low)
                     /\ SubSeq(low, i, i + Len(phrase) - 1) = phrase})

\* for each readable file, each of its pages, each phrase list and each of its phrases:
\* the number of occurrences of the phrase in the text of the page
PhraseCounts ==
  [n \in ReadableNames |->
    [k \in 1..Len(ParseOf[n].pages) |->
      [l \in 1..Len(commitment_lists) |->
        [j \in 1..Len(commitment_lists[l].phrases) |->
           OccurrencesIn(ParseOf[n].pages[k].text, commitment_lists[l].phrases[j])]]]]

\* the files of this run that extract_language_patterns has returned for
LanguageDone ==
  ({text_files[j] : j \in 1..(idx - 1)} \cap ReadableNames)
  \cup (IF pc \in {"initiatives", "impact"} THEN {text_files[idx]} ELSE {})

\* the language records appended for page k of file n with the strength of list l and
\* phrase j of that list, in whatever case
RecordsOfPhrase(n, k, l, j) ==
  {i \in 1..Len(language_data) :
     /\ origin.language[i] = n
     /\ language_data[i].page_number = ParseOf[n].pages[k].page_number
     /\ language_data[i].commitment_strength = commitment_lists[l].strength
     /\ Lower(language_data[i].phrase) = commitment_lists[l].phrases[j]}

\* C20: for every file the language pass has run for, every page of it and every phrase
\* of the three lists, there are as many language records of that page with that phrase
\* as the phrase occurs in the text of the page, compared without case, each with the
\* strength of the list of the phrase; every language record has one of the three
\* strengths and a phrase of the list of that strength, whatever text surrounds it.
C20_OneRecordPerOccurrence ==
  /\ \A i \in 1..Len(language_data) :
        /\ language_data[i].commitment_strength \in {"Strong", "Moderate", "Weak/Hedging"}
        /\ \E l \in 1..Len(commitment_lists) :
              /\ language_data[i].commitment_strength = commitment_lists[l].strength
              /\ Lower(language_data[i].phrase) \in Range(commitment_lists[l].phrases)
  /\ \A n \in ReadableNames :
        \A k \in 1..Len(ParseOf[n].pages) :
          \A l \in 1..Len(commitment_lists) :
            \A j \in 1..Len(commitment_lists[l].phrases) :
              Cardinality(RecordsOfPhrase(n, k, l, j))
                = IF n \in LanguageDone THEN PhraseCounts[n][k][l][j] ELSE 0

\* the language pass has run for a page with phrases of all three lists, one of them
\* twice, in upper and lower case, and one after a negation
C20_PageOfThreeStrengths ==
  /\ pc = "done"
  /\ \E a, b, c, d \in 1..Len(language_data) :
        /\ \A i \in {a, b, c, d} : origin.language[i] = "2025_Climate_Policy_extracted.txt"
        /\ language_data[a].phrase = "Committed To"
        /\ language_data[a].commitment_strength = "Strong"
        /\ Contains(language_data[a].context, "NOT Committed To")
        /\ language_data[b].phrase = "may" /\ language_data[c].phrase = "MAY"
        /\ language_data[b].commitment_strength = "Weak/Hedging"
        /\ language_data[c].commitment_strength = "Weak/Hedging"
        /\ language_data[d].phrase = "plan to"
        /\ language_data[d].commitment_strength = "Moderate"

(***************************************************************************)
(* Properties of stage 1 (specification SpecStage1).                       *)
(***************************************************************************)
\* the PDFs of the run that were extracted and saved, in the order of the loop
SavedPdfs ==
  SelectSeq(SubSeq(pdf_files, 1, pdf_idx - 1),
            LAMBDA pdf : pdf \notin unreadable /\ pdf.pages # <<>> /\ pdf \notin unwritable)

\* the text file of the PDF is in the output directory, with the text of that PDF
HasOwnTextFile(pdf) ==
  /\ Stage1Output(pdf).name \in DOMAIN text_output
  /\ text_output[Stage1Output(pdf).name] = Stage1Output(pdf).content

\* C17 as stated: when stage 1 is done, every PDF it extracted has a metadata record, a
\* metadata file and a text file of its own: there are as many records, metadata files
\* and text files as PDFs, and each text file holds the text of its PDF.
C17_OwnOutputsPerPdf ==
  pc1 = "done" =>
    /\ Len(extraction_log) = Len(SavedPdfs)
    /\ Cardinality(metadata_output) = Len(SavedPdfs)
    /\ Cardinality(DOMAIN text_output) = Len(SavedPdfs)
    /\ \A k \in 1..Len(SavedPdfs) : HasOwnTextFile(SavedPdfs[k])

\* the markers of the text file number the pages of the PDF: there is one marker per page
\* of the PDF, the k-th marker reads [PAGE k OF n] with n the number of pages of the PDF,
\* and the text from the k-th marker to the next is the text of the k-th page
PagesNumbered(pdf, content) ==
  LET ms     == Finditer(page_pattern, content)
      pieces == SplitAt(content, ms)
      n      == Len(pdf.pages)
  IN  /\ Len(ms) = n
      /\ \A k \in 1..n :
            /\ pieces[3 * k - 1] = ToString(k)
            /\ pieces[3 * k] = ToString(n)
            /\ k >= 1 /\ k <= n
            /\ pieces[3 * k + 1] = "\n" \o pdf.pages[k] \o "\n" \o (IF k < n THEN "\n" ELSE "")

\* C19: the text file stage 1 has written for the PDF it saved last holds the pages of
\* that PDF once each and in their order, numbered 1..total_pages, every marker with the
\* same total_pages, the number of pages of the PDF.  (The state after each save is
\* reachable, so this covers every PDF at the moment its file is written.)
C19_PagesNumberedInOrder ==
  SavedPdfs # <<>> =>
    /\ Len(extraction_log) = Len(SavedPdfs)
    /\ extraction_log[Len(extraction_log)].output_file \in DOMAIN text_output
    /\ extraction_log[Len(extraction_log)].total_pages = Len(SavedPdfs[Len(SavedPdfs)].pages)
    /\ PagesNumbered(SavedPdfs[Len(SavedPdfs)],
                     text_output[extraction_log[Len(extraction_log)].output_file])

\* two PDFs of two pages each were saved one after the other, the first with a line of
\* 80 '=' in the text of a page
C19_TwoPagesSaved ==
  /\ Len(SavedPdfs) = 2
  /\ SavedPdfs[1] = pdf10K
  /\ SavedPdfs[2] = pdfGCS
  /\ "2023_GCS_Report_extracted.txt" \in DOMAIN text_output

(***************************************************************************)
(* Properties of the path functions (specification SpecPaths).             *)
(***************************************************************************)
\* the rules of the document types in their order: a rule holds for a name in lower case
\* when all words of one of its alternatives occur in it
TypeRules ==
  <<[type |-> "Global Citizenship & Sustainability Report",
     alternatives |-> {{"citizenship"}, {"gcs"}, {"sustainability"}}],
    [type |-> "10-K Annual Report", alternatives |-> {{"10k"}, {"10-k"}}],
    [type |-> "CDP Climate Change Disclosure", alternatives |-> {{"cdp", "climate"}}],
    [type |-> "CDP Water Security Disclosure", alternatives |-> {{"cdp", "water"}}],
    [type |-> "CDP Forest Disclosure", alternatives |-> {{"cdp", "forest"}}],
    [type |-> "Carbon Footprint Verification/Assurance",
     alternatives |-> {{"carbon footprint"}, {"verification"}, {"assurance"}}]>>

SevenTypes == {TypeRules[k].type : k \in 1..Len(TypeRules)} \cup {"Other Report"}

RuleHolds(rule, f) == \E words \in rule.alternatives : \A w \in words : Contains(f, w)

\* the type of the first rule that holds for the name, 'Other Report' when none holds
FirstRuleType(name) ==
  IF \E k \in 1..Len(TypeRules) : RuleHolds(TypeRules[k], Lower(name))
  THEN TypeRules[CHOOSE k \in 1..Len(TypeRules) :
                   /\ RuleHolds(TypeRules[k], Lower(name))
                   /\ \A j \in 1..(k - 1) : ~RuleHolds(TypeRules[j], Lower(name))].type
  ELSE "Other Report"

\* C18: what categorize_document returns for a path is one of the seven document types,
\* namely the type of the first rule in the fixed order that holds for the file name, and
\* 'Other Report' when no rule holds; what extract_year_from_path returns is an int from
\* 2020 to 2025 or the str 'Unknown'.
C18_TypeAndYear ==
  /\ doc_type # <<>> =>
       /\ doc_type[1] \in SevenTypes
       /\ Cardinality(SevenTypes) = 7
       /\ doc_type[1] = FirstRuleType(pdf_path.name)
  /\ year_found # <<>> =>
       year_found[1] \in {IntYear(y) : y \in 2020..2025} \cup {StrYear("Unknown")}

\* both functions were called on a path whose name two rules hold for and that has a
\* year outside 2020..2025 only
C18_TwoRulesNoYear ==
  /\ pdf_path = [dir |-> "extracted_reports/2019", name |-> "10K GCS.pdf"]
  /\ doc_type = <<"Global Citizenship & Sustainability Report">>
  /\ year_found = <<StrYear("Unknown")>>

(***************************************************************************)
(* The year of a path whose directory and file name both carry a year      *)
(* (specification SpecPaths).                                              *)
(***************************************************************************)
\* the years from 2020 to 2025 whose digits occur in the text
YearsCarried(text) == {y \in 2020..2025 : Contains(text, ToString(y))}

\* C25 as stated: extract_year_from_path returns a year of the directory when the
\* directory carries one, whatever year the file name carries; it returns a year of the
\* file name only when the directory carries none, and 'Unknown' when neither does.
C25_DirectoryYearFirst ==
  year_found # <<>> =>
    IF YearsCarried(pdf_path.dir) # {}
    THEN year_found[1] \in {IntYear(y) : y \in YearsCarried(pdf_path.dir)}
    ELSE IF YearsCarried(pdf_path.name) # {}
    THEN year_found[1] \in {IntYear(y) : y \in YearsCarried(pdf_path.name)}
    ELSE year_found[1] = StrYear("Unknown")

(***************************************************************************)
(* The verdict of the orchestrator on a stage (specification SpecPipeline).*)
(***************************************************************************)
\* the loop of run_complete_analysis is through with stage k
StageJudged(k) == pc0 \in {"log", "done"} \/ (pc0 = "run" /\ k < step)

\* where the script of stage k stands
PcOfStage(k) == CASE k = 1 -> pc1 [] k = 2 -> pc [] k = 3 -> pc3

\* the process of stage k was started and has exited with return code 0
ExitedWithZero(k) ==
  /\ Event(Scripts[k], "ended") \in Range(events)
  /\ Msg("output", Scripts[k], 0) \in Range(console0)

\* C26: a stage the loop is through with is on the list of completed steps exactly when
\* its script file exists, subprocess.run did not raise and the process exited with return
\* code 0; in every other case it is on the list of failed steps; a stage whose main()
\* returned after reporting a missing input directory exited with 0 and is completed, and
\* a stage that ended with a traceback is failed.
C26_VerdictFromReturnCode ==
  \A k \in 1..Len(Scripts) :
    StageJudged(k) =>
      /\ Descriptions[k] \in Range(success_steps)
           <=> (Scripts[k] \notin env.missing /\ Scripts[k] \notin env.launch_fails
                /\ ExitedWithZero(k))
      /\ Descriptions[k] \in Range(failed_steps) <=> Descriptions[k] \notin Range(success_steps)
      /\ Scripts[k] \in Range(Started) =>
           /\ PcOfStage(k) \in {"done", "aborted", "crashed"}
           /\ PcOfStage(k) \in {"done", "aborted"} => Descriptions[k] \in Range(success_steps)
           /\ PcOfStage(k) = "crashed" => Descriptions[k] \in Range(failed_steps)

\* the run is through: the script of stage 1 was missing, stage 2 found no text directory
\* and returned, and is listed as completed
C26_AbortedStageCompleted ==
  /\ pc0 = "done"
  /\ Scripts[1] \in env.missing
  /\ pc = "aborted"
  /\ Descriptions[1] \in Range(execution_log.failed)
  /\ Descriptions[2] \in Range(execution_log.completed)

(***************************************************************************)
(* The four passes of stage 2 side by side (specification Spec).           *)
(***************************************************************************)
RECURSIVE SumTo(_, _)
\* f[1] + ... + f[n]
SumTo(f, n) == IF n = 0 THEN 0 ELSE f[n] + SumTo(f, n - 1)

\* the number of matches of one pattern in a text, whatever the other patterns match: a
\* keyword is counted where it stands, from left to right; a shaped pattern is searched
\* alone
PatternCount(p, text) ==
  IF Len(p) = 1 /\ p[1].t = "lit" THEN Len(Occurrences(Lower(text), p[1].s))
  ELSE Len(FinditerIgnoreCase(p, text))

PatternCounts(patterns, text) ==
  SumTo([j \in 1..Len(patterns) |-> PatternCount(patterns[j], text)], Len(patterns))

\* for each readable file and each of its pages: the number of records each pattern set
\* is to yield, every pattern, phrase and keyword counted by itself
ExpectedCounts ==
  [n \in ReadableNames |->
    [k \in 1..Len(ParseOf[n].pages) |->
      [targets      |-> PatternCounts(target_keywords, ParseOf[n].pages[k].text),
       language     |-> SumTo([l \in 1..Len(commitment_lists) |->
                                 SumTo(PhraseCounts[n][k][l], Len(commitment_lists[l].phrases))],
                              Len(commitment_lists)),
       initiatives  |-> PatternCounts(initiative_keywords, ParseOf[n].pages[k].text),
       impact_areas |-> Cardinality({x \in ExpectedImpact[n] :
                                       x.page_number = ParseOf[n].pages[k].page_number})]]]

\* where the loop stands once the pass of a table has returned for the file at hand
PassesAfter ==
  [targets      |-> {"language", "initiatives", "impact"},
   language     |-> {"initiatives", "impact"},
   initiatives  |-> {"impact"},
   impact_areas |-> {}]

\* the files of this run the pass of table t has returned for
PassDone(t) == CompletedFiles \cup (IF pc \in PassesAfter[t] THEN {text_files[idx]} ELSE {})

\* the records of collection t appended for page k of file n
RecordsOn(t, n, k) ==
  {i \in 1..Len(Collections[t]) :
     /\ origin[t][i] = n
     /\ Collections[t][i].page_number = ParseOf[n].pages[k].page_number}

\* C21: whatever step the run has reached, each collection holds, for every page of every
\* file, as many records as the patterns of its own pattern set match on the page, each
\* pattern counted by itself (so text that k patterns match yields k records, none is
\* dropped as a duplicate and none shuts another out), once the pass of that collection
\* has returned for the file, and none before: a pass changes no collection but its own.
C21_EachPatternByItself ==
  \A t \in Tables : \A n \in ReadableNames : \A k \in 1..Len(ParseOf[n].pages) :
    Cardinality(RecordsOn(t, n, k)) = IF n \in PassDone(t) THEN ExpectedCounts[n][k][t] ELSE 0

\* the run is through a page on which 'science-based target' stands after 'aim to': the
\* page has a target record for 'target', one for 'science-based target' and one for
\* 'aim to', and a language record for 'aim to'
C21_OnePhraseSeveralRecords ==
  /\ pc = "done"
  /\ \E a, b, c \in 1..Len(targets_data) : \E d \in 1..Len(language_data) :
       /\ \A i \in {a, b, c} : origin.targets[i] = "2025_Climate_Policy_extracted.txt"
                                /\ targets_data[i].page_number = 2
       /\ origin.language[d] = "2025_Climate_Policy_extracted.txt"
       /\ language_data[d].page_number = 2
       /\ targets_data[a].keyword_matched = "target"
       /\ targets_data[b].keyword_matched = "science-based target"
       /\ targets_data[c].keyword_matched = "aim to"
       /\ language_data[d].phrase = "aim to"
       /\ language_data[d].commitment_strength = "Moderate"

(***************************************************************************)
(* The numbers a target record lists (specification Spec).                 *)
(***************************************************************************)
\* the window of a target match: up to 200 characters on either side, stripped, runs of
\* whitespace collapsed
TargetContext(text, m) ==
  Collapse(Strip(SubSeq(text, Max2(1, m.start + 1 - TargetWindow), Min2(Len(text), m.end + TargetWindow))))

\* the numbers of four digits that stand as words of their own in the context, in order
FourDigitYears(context) == Findall(<<WordBoundary>>, <<Times("d", 4)>>, <<WordBoundary>>, context)

\* the numbers followed by a percent sign in the context, in order
PercentagesIn(context) == Findall(<<>>, percentage_group, percentage_rest, context)

\* record r lists what the window of one of the target matches of the page holds
ListsItsWindow(f, r) ==
  \E k \in 1..Len(ParseOf[f].pages) : \E j \in 1..Len(target_keywords) :
    \E m \in Range(FinditerIgnoreCase(target_keywords[j], ParseOf[f].pages[k].text)) :
      /\ r.page_number = ParseOf[f].pages[k].page_number
      /\ r.keyword_matched = Group(ParseOf[f].pages[k].text, m)
      /\ r.percentages = Join(", ", PercentagesIn(TargetContext(ParseOf[f].pages[k].text, m)))
      /\ r.target_years = Join(", ", FourDigitYears(TargetContext(ParseOf[f].pages[k].text, m)))

RecordsListingWindow ==
  [f \in ReadableNames |-> {r \in Range(ExtractedOf[f].targets) : ListsItsWindow(f, r)}]

\* C22 as stated: every target record lists, in the order they appear, every percentage
\* and every year of four digits of the collapsed window of up to 200 characters around
\* its match, and nothing from outside that window.
C22_ListsEveryYearOfWindow ==
  \A i \in 1..Len(targets_data) : targets_data[i] \in RecordsListingWindow[origin.targets[i]]

(***************************************************************************)
(* Stage 3 on tables with the year 'Unknown' (specification SpecStage3).   *)
(***************************************************************************)
\* the rows of the CSV file of table t, and those of them with the year cell y
RowsOf(t) == data_dir[t].rows

RowsOfYear(t, y) == SelectSeq(RowsOf(t), LAMBDA r : r.year = y)

NumericYears(t) == {RowsOf(t)[i].year : i \in {j \in 1..Len(RowsOf(t)) : IsNumeric(RowsOf(t)[j].year)}}

\* the per-year tables leave the rows without a numeric year out, the totals of the
\* report count them
UnknownLeftOutOfYears ==
  /\ ~Missing("targets") =>
       LET tab == analysis_tables["targets_by_year_summary.csv"]
       IN  /\ {ToString(tab[k].Year) : k \in 1..Len(tab)} = NumericYears("targets")
           /\ \A k \in 1..Len(tab) :
                tab[k].Target_Mentions = Len(RowsOfYear("targets", ToString(tab[k].Year)))
           /\ report.targets_by_year = [k \in 1..Len(tab) |->
                                          [value |-> tab[k].Year, count |-> tab[k].Target_Mentions]]
  /\ ~Missing("language") =>
       LET tab == analysis_tables["commitment_language_counts.csv"]
       IN  /\ {ToString(tab[k].year) : k \in 1..Len(tab)} = NumericYears("language")
           /\ \A k \in 1..Len(tab) : \A v \in DOMAIN tab[k].cells :
                tab[k].cells[v] = Len(SelectSeq(RowsOfYear("language", ToString(tab[k].year)),
                                                LAMBDA r : r.commitment_strength = v))
  /\ ~Missing("impact_areas") =>
       LET tab == analysis_tables["impact_areas_by_year.csv"]
       IN  {ToString(tab[k].year) : k \in 1..Len(tab)} = NumericYears("impact_areas")
  /\ report.targets = Len(RowsOf("targets"))
  /\ report.language = Len(RowsOf("language"))
  /\ report.initiatives = Len(RowsOf("initiatives"))
  /\ report.impact_areas = Len(RowsOf("impact_areas"))

\* C23 as stated: whatever rows of the input tables have the year 'Unknown', some or all,
\* stage 3 does not end in an exception, and when it is done the rows without a numeric
\* year are left out of every per-year count and are counted in the totals.
C23_UnknownYearsTolerated ==
  /\ pc3 # "crashed"
  /\ pc3 = "done" => UnknownLeftOutOfYears

(***************************************************************************)
(* Records once made (specification SpecPipeline): the collections of      *)
(* stage 2 while its process runs, the CSV files while stage 3 runs.       *)
(***************************************************************************)
\* a step of the running stage 2 leaves every record of every collection where it is
\* and as it is: each collection after the step begins with the collection before it
OnlyAppends ==
  /\ IsPrefix(targets_data, targets_data')
  /\ IsPrefix(language_data, language_data')
  /\ IsPrefix(initiatives_data, initiatives_data')
  /\ IsPrefix(impact_areas_data, impact_areas_data')

\* C24: in every step of a run of stage 2 each of the four collections keeps the records
\* it has, unchanged and in their places, and at most gains records at its end; in every
\* step of stage 3 the four CSV files of the data directory stay as they are, as does what
\* stage 3 has read from them.
C24_NoRecordUpdated ==
  [][/\ (running = 2 /\ pc # "start") => OnlyAppends
     /\ running = 3 => (csv' = csv /\ data_dir' = data_dir)]_vars

\* the run of the orchestrator is through: stage 2 has appended the records of a second
\* file after those of a first, and stage 3 has read the CSV files and is done
C24_AppendedThenRead ==
  /\ pc0 = "done"
  /\ pc = "done"
  /\ pc3 = "done"
  /\ \E i, j \in 1..Len(targets_data) : i < j /\ origin.targets[i] # origin.targets[j]
  /\ data_dir = csv
  /\ csv.targets.rows = targets_data
  /\ frames.targets # <<>>

(***************************************************************************)
(* The year_numeric column at the dashboard and the report (specification  *)
(* SpecStage3).                                                            *)
(***************************************************************************)
\* every row of the table carries the column year_numeric
ColumnMade(t) == \A i \in 1..Len(frames[t]) : "year_numeric" \in DOMAIN frames[t][i]

\* the run has come to the dashboard or has gone past it
AtDashboardOrLater == pc3 \in {"dashboard", "report", "done"}

\* C27: whenever a run of run_all_analyses stands at create_overall_dashboard or at
\* create_summary_report, or has been through them, the tables of targets and of
\* initiatives carry the column year_numeric in every row they have (an empty table has
\* none to read); a run that ended in an exception ended in an analyze_* step, before the
\* dashboard, with no dashboard chart and no report file, and its targets table carries
\* the column as well.
C27_ColumnMadeBeforeRead ==
  /\ AtDashboardOrLater => ColumnMade("targets") /\ ColumnMade("initiatives")
  /\ pc3 = "crashed" =>
       /\ ColumnMade("targets")
       /\ "comprehensive_dashboard.png" \notin charts
       /\ ~report.exists
       /\ \E t \in {"language", "impact_areas"} :
            frames[t] # <<>> /\ ColumnMade(t) /\ NoNumericYear(frames[t])

\* a run is done whose dashboard and report read the years of targets and of initiatives
C27_BothTablesRead ==
  /\ pc3 = "done"
  /\ frames.targets # <<>> /\ frames.initiatives # <<>>
  /\ ColumnMade("targets") /\ ColumnMade("initiatives")
  /\ "comprehensive_dashboard.png" \in charts
  /\ report.exists /\ report.targets_by_year # <<>>

(***************************************************************************)
(* From save_extracted_text to parse_text_file and back (specification     *)
(* SpecRoundTrip).                                                         *)
(***************************************************************************)
\* the text without the newlines before its first and after its last other character
TrimNewlines(s) == Between(s, SelectSeq(Idx(Len(s)), LAMBDA i : Ch(s, i) # "\n"))

\* a page text of the document holds a page-marker sequence
MarkerInPageText == \E k \in 1..Len(pdf_path.pages) : Finditer(page_pattern, pdf_path.pages[k]) # <<>>

\* the pages read back are the pages written: as many, in their order, each with its
\* number and the number of pages, each text the same up to newlines around it
PagesReadBack(pages) ==
  /\ Len(pages) = Len(pdf_path.pages)
  /\ \A k \in 1..Len(pages) :
       /\ pages[k].page_number = k
       /\ pages[k].total_pages = Len(pdf_path.pages)
       /\ TrimNewlines(pages[k].text) = TrimNewlines(pdf_path.pages[k])

\* the header fields read back are the ones written
HeaderReadBack(metadata) ==
  metadata = [source_file   |-> pdf_path.name,
              year          |-> YearText(year_found[1]),
              document_type |-> doc_type[1]]

\* C28: parse_text_file, applied to a file save_extracted_text wrote for a document none
\* of whose page texts holds a page-marker sequence, returns as many pages as were
\* written, in the same order, each with the same page_number and total_pages and with
\* the original page text up to newlines around it, and a header metadata of the source
\* file name, the year as text and the document type that were written.
C28_RoundTrip ==
  (parse_result # <<>> /\ ~MarkerInPageText) =>
     /\ PagesReadBack(parse_result[1].pages)
     /\ HeaderReadBack(parse_result[1].metadata)
====
